---- MODULE Spec2Model ----
(***************************************************************************)
(* The stage-based workflow engine (WorkflowExecutor) and the session      *)
(* state it drives (SessionState), as a state machine.  One run of         *)
(* execute() is followed from NotStarted to the point where its promise    *)
(* is fulfilled with a result bundle ("returned"), is rejected with an     *)
(* exception ("rejected"), or can never settle ("hung").                   *)
(***************************************************************************)
EXTENDS Integers, Sequences, FiniteSets, TLC

VARIABLES
  wf,            \* the workflow definition and initial input given to execute()
  pc,            \* position of execute() / executeStage()
  sess,          \* SessionState.state: status, currentStage, currentAgent, domain
  currentStage,  \* local variable currentStage of execute()
  visits,        \* number of stages started so far in this run
  attempts,      \* local variable attempts of executeStage()
  lastError,     \* local variable lastError of executeStage()
  timer,         \* the timeout timer of the current attempt: none, armed, fired
  abandoned,     \* some invocation abandoned by a timeout has not settled yet
  waitResult,    \* the first result of an input-wait stage (wait_for_input)
  userInput,     \* the value folded into task.input.userInput
  invoked,       \* the stages whose agent has been invoked in this run
  visitCalls,    \* invocations of the agent in the current visit of the stage
  reinvocations, \* of these, the second invocations made after an input wait
  lastFailure,   \* the value the latest failed attempt of this visit failed with
  sleeps,        \* retry delays slept in the current visit, in order
  executionLog,  \* local variable executionLog of execute()
  events,        \* lifecycle events emitted so far, in order
  caught,        \* the value caught by execute()'s catch block
  escaped,       \* the value execute()'s promise was rejected with
  ret,           \* the WorkflowResult execute() returned
  runs,          \* the execute() calls in flight at the same time, when there are two
  containers,    \* the SessionState objects made for these calls
  current,       \* SessionState.state of a container used on its own
  history,       \* SessionState.history of that container
  clock,         \* the latest time read by new Date()
  updateCalls,   \* update()/updateDomain() calls made on the container
  createdState,  \* the state the container was constructed with
  held,          \* the caller's latest checkpoint token
  lastCall,      \* the latest call on the container and what it did
  arrays,        \* the items of the array objects the container's caller holds
  notifications, \* the calls of the container's subscribers so far, in order
  options,       \* config.options of a select prompt: the disabled flag of each
  loop,          \* TerminalSelect.loop
  pageSize,      \* TerminalSelect.pageSize
  cursor,        \* TerminalSelect.cursor
  scrollOffset,  \* TerminalSelect.scrollOffset
  move,          \* the moveCursor() call in progress: direction and local next
  plugins,       \* PluginLoader.plugins: the ids of the plugins in the map
  tasks,         \* TaskRegistry.tasks: the task types registered
  tools,         \* ToolRegistry.tools: the names of the tools registered
  lastLoad       \* the latest load()/unload() call and how it ended

executorVars ==
  << wf, pc, sess, currentStage, visits, attempts, lastError, timer,
     abandoned, waitResult, userInput, invoked, visitCalls,
     reinvocations, lastFailure, sleeps,
     executionLog, events, caught, escaped, ret, runs, containers >>

containerVars ==
  << current, history, clock, updateCalls, createdState, held, lastCall,
     arrays, notifications >>

selectVars == << options, loop, pageSize, cursor, scrollOffset, move >>

loaderVars == << plugins, tasks, tools, lastLoad >>

vars == << executorVars, containerVars, selectVars, loaderVars >>

-----------------------------------------------------------------------------
(* Bounds of the model *)

MaxAttempts == 3   \* largest retry.maxAttempts tried
MaxVisits == 2     \* stages one run may start before agents must stop routing on

-----------------------------------------------------------------------------
(* Values *)

None == "<none>"          \* null / undefined
Absent == "<absent>"      \* a key that is not in a mapping

StageIds == {"A", "B", "C"}
Fields == {"x", "y"}

\* A thrown value: an Error with a message, or some other value (truthy or
\* falsy), which has no message.
Err(m) == [isError |-> TRUE, truthy |-> TRUE, message |-> m]
NonError(t) == [isError |-> FALSE, truthy |-> t, message |-> ""]
NoError == [isError |-> FALSE, truthy |-> FALSE, message |-> "<null>"]

ListenerError == Err("listener failed")
SubscriberError == Err("subscriber failed")
HookError == Err("hook failed")
InputError == Err("input failed")
TimeoutError == Err("Stage timeout")

\* What an agent's promise may be rejected with.
AgentThrowables == {Err("e1"), Err("e2"), NonError(TRUE), NonError(FALSE)}

-----------------------------------------------------------------------------
(* NextAction and AgentResult *)

Continue(next) ==
  [type |-> "continue", target |-> next, message |-> "", recoverable |-> FALSE]
WaitForInput ==
  [type |-> "wait_for_input", target |-> None, message |-> "", recoverable |-> FALSE]
Handoff(t) ==
  [type |-> "handoff", target |-> t, message |-> "", recoverable |-> FALSE]
Complete ==
  [type |-> "complete", target |-> None, message |-> "done", recoverable |-> FALSE]
ErrorAction(m, r) ==
  [type |-> "error", target |-> None, message |-> m, recoverable |-> r]

NextActions ==
  { Continue(None), Continue("C"), WaitForInput, Handoff("C"), Handoff("Z"),
    Complete,
    ErrorAction("agent error", TRUE), ErrorAction("agent error", FALSE) }

\* stateUpdates: a mapping over a subset of the fields (Absent: key not named)
NoUpdates == [f \in Fields |-> Absent]
UpdateChoices == { NoUpdates, [NoUpdates EXCEPT !["y"] = "1"] }

UpdateKeys(u) == { f \in Fields : u[f] # Absent }

\* The results an agent may return.  The success flag is free for continue and
\* complete; the helpers of BaseAgentImpl give error results success = false
\* and the others success = true.
SuccessChoices(na) ==
  IF na.type \in {"continue", "complete"} THEN BOOLEAN
  ELSE IF na.type = "error" THEN {FALSE} ELSE {TRUE}

\* The state updates tried with a next action: results that go on or wait for
\* input carry updates or none, the others none.
UpdatesWith(na) ==
  IF na.type \in {"continue", "wait_for_input"} THEN UpdateChoices
  ELSE {NoUpdates}

AgentResults ==
  UNION { [success : SuccessChoices(na), output : {None},
           stateUpdates : UpdatesWith(na), nextAction : {na}] : na \in NextActions }

NoResult == [success |-> FALSE, output |-> None, stateUpdates |-> NoUpdates,
             nextAction |-> Continue(None)]

-----------------------------------------------------------------------------
(* The workflow definition *)

NoRetry == [configured |-> FALSE, maxAttempts |-> 0, delayMs |-> 0,
            hasMultiplier |-> FALSE, backoffMultiplier |-> 0]

\* The retry policies tried: every maxAttempts with the multiplier unset, and
\* the largest maxAttempts with the multipliers 0 and 2.
RetryChoices ==
  {NoRetry} \cup
  [configured : {TRUE}, maxAttempts : 1..MaxAttempts, delayMs : {100},
   hasMultiplier : {FALSE}, backoffMultiplier : {0}] \cup
  [configured : {TRUE}, maxAttempts : {MaxAttempts}, delayMs : {100},
   hasMultiplier : {TRUE}, backoffMultiplier : {0, 2}]

\* A precondition: field (the dotted path), condition, value, customCheck (the
\* name of the predicate, Absent if none is configured), errorMessage.
Precondition(f, c, v, cc, m) ==
  [field |-> f, condition |-> c, value |-> v, customCheck |-> cc,
   errorMessage |-> m]

\* The preconditions tried: on x and its kinds of value, on a path through x
\* (which is never a mapping) and through a key the domain lacks, on a top
\* level field, with a custom predicate and without one.
NoPre == [stage |-> None, list |-> << >>]
PreChoices ==
  { NoPre,
    [stage |-> "A",
     list |-> << Precondition("domain.x", "exists", Absent, Absent,
                              "x is required") >>],
    [stage |-> "C",
     list |-> << Precondition("domain.y", "exists", Absent, Absent,
                              "y is required") >>],
    [stage |-> "A",
     list |-> << Precondition("domain.x", "not_empty", Absent, Absent,
                              "x is empty"),
                 Precondition("currentStage", "equals", "A", Absent,
                              "not at A") >>],
    [stage |-> "A",
     list |-> << Precondition("domain.x", "exists", Absent, Absent,
                              "x is required"),
                 Precondition("domain.x.p", "exists", Absent, Absent,
                              "p is required") >>],
    [stage |-> "A",
     list |-> << Precondition("domain.x", "custom", Absent, "xIsV",
                              "x is not v"),
                 Precondition("domain.x", "equals", "v", Absent,
                              "x differs") >>],
    [stage |-> "A",
     list |-> << Precondition("domain.x", "equals", "v", Absent,
                              "x differs"),
                 Precondition("domain.z.p", "equals", Absent, Absent,
                              "p is set"),
                 Precondition("domain.x", "custom", Absent, Absent,
                              "no check") >>] }

\* the initial values of x tried: missing, null, the empty string, a string
InputChoices == {Absent, None, "", "v"}

\* The workflows, inputs and collaborators tried.  Stage A carries the retry
\* policy, the preconditions sit on A or C, the initial input has x or omits
\* it.  observers: event listeners and state subscribers that may throw are
\* registered; hooks: the workflow has onStart/onComplete/onError hooks, which
\* may throw or never settle.  unregistered: the stage whose agent key names no
\* registered agent.  next: whether the static next rule of stage A is the
\* literal id of B, or a function of the state.
Workflows ==
  [initialStage : {"A"}, retry : RetryChoices, pre : {NoPre}, inputX : {"v"},
   observers : {FALSE}, hooks : {FALSE}, unregistered : {None},
   next : {"literal"}]
  \cup
  { w \in [initialStage : {"A"}, retry : {NoRetry}, pre : PreChoices,
           inputX : InputChoices, observers : {FALSE}, hooks : {FALSE},
           unregistered : {None}, next : {"literal"}] :
      w.inputX \in {None, ""} => w.pre.stage = "A" }
  \cup
  [initialStage : {"A"},
   retry : { r \in RetryChoices : r.maxAttempts <= 2 /\ ~r.hasMultiplier },
   pre : {NoPre}, inputX : {"v"}, observers : {TRUE}, hooks : {FALSE},
   unregistered : {None},
   next : {"literal"}]
  \cup
  [initialStage : {"A"}, retry : {NoRetry}, pre : {NoPre}, inputX : {"v"},
   observers : {FALSE}, hooks : {TRUE}, unregistered : {None},
   next : {"literal"}]
  \cup
  [initialStage : {"A"},
   retry : { r \in RetryChoices : r.maxAttempts \in {0, MaxAttempts}
                                   /\ ~r.hasMultiplier },
   pre : {NoPre}, inputX : {"v"}, observers : {FALSE}, hooks : {FALSE},
   unregistered : {"A", "C"},
   next : {"literal"}]
  \cup
  [initialStage : {"A"}, retry : {NoRetry}, pre : {NoPre}, inputX : {"v"},
   observers : {FALSE}, hooks : {FALSE}, unregistered : {None},
   next : {"function"}]

\* WorkflowStageDefinition: static wiring A -> B -> C -> null; as a function,
\* A's rule is (state) => state.domain.y !== undefined ? 'B' : null
StageNext(id, state) ==
  CASE id = "A" /\ wf.next = "function" ->
         IF state.domain["y"] # Absent THEN "B" ELSE None
    [] id = "A" -> "B"
    [] id = "B" -> "C"
    [] OTHER -> None

StageAgent(id) == "agent-" \o id
RegisteredAgents == { StageAgent(id) : id \in StageIds \ {wf.unregistered} }
StageRetry(id) == IF id = "A" THEN wf.retry ELSE NoRetry
StagePreconditions(id) == IF wf.pre.stage = id THEN wf.pre.list ELSE << >>

-----------------------------------------------------------------------------
(* SessionState *)

\* A partial update: Absent marks a key the update does not carry.
Partial(st, cs, ca, dom) ==
  [status |-> st, currentStage |-> cs, currentAgent |-> ca, domain |-> dom]

TopKeys == {"status", "currentStage", "currentAgent"}

\* SessionState.computeChanges: the paths whose leaf differs from the state
ComputeChanges(state, updates) ==
  { <<k>> : k \in { k \in TopKeys : updates[k] # Absent /\ updates[k] # state[k] } }
  \cup
  { <<"domain", f>> :
      f \in { f \in Fields : updates.domain[f] # Absent
                              /\ updates.domain[f] # state.domain[f] } }

\* SessionState.update: the new state
SessionUpdate(state, updates) ==
  [status |-> IF updates.status # Absent THEN updates.status ELSE state.status,
   currentStage |-> IF updates.currentStage # Absent THEN updates.currentStage
                    ELSE state.currentStage,
   currentAgent |-> IF updates.currentAgent # Absent THEN updates.currentAgent
                    ELSE state.currentAgent,
   domain |-> [f \in Fields |-> IF updates.domain[f] # Absent
                                THEN updates.domain[f] ELSE state.domain[f]]]

\* SessionState.updateDomain: update({domain: {...state.domain, ...updates}})
DomainPartial(state, updates) ==
  Partial(Absent, Absent, Absent,
          [f \in Fields |-> IF updates[f] # Absent THEN updates[f]
                            ELSE state.domain[f]])

\* SessionState constructor, as execute() calls it
CreateSession(initialDomain) ==
  [status |-> "active", currentStage |-> None, currentAgent |-> None,
   domain |-> initialDomain]

\* the position of the first '.' of str at or after position from, or
\* Len(str) + 1 if there is none
RECURSIVE NextDot(_, _)
NextDot(str, from) ==
  IF from > Len(str) \/ SubSeq(str, from, from) = "." THEN from
  ELSE NextDot(str, from + 1)

\* path.split('.'): the keys of a dotted path, from position from on
RECURSIVE SplitFrom(_, _)
SplitFrom(str, from) ==
  LET i == NextDot(str, from) IN
  IF i > Len(str) THEN << SubSeq(str, from, Len(str)) >>
  ELSE << SubSeq(str, from, i - 1) >> \o SplitFrom(str, i + 1)

Split(str) == SplitFrom(str, 1)

\* What the reduce of getNestedValue holds: the snapshot, its domain, or a
\* value that is not a mapping (Absent is undefined, None is null)
AtSnapshot(state) == [kind |-> "snapshot", state |-> state, leaf |-> Absent]
AtDomain(state) == [kind |-> "domain", state |-> state, leaf |-> Absent]
AtLeaf(state, v) == [kind |-> "leaf", state |-> state, leaf |-> v]

\* the reducer of getNestedValue: current && typeof current === 'object' ?
\* current[key] : undefined.  A top-level field the run has not set is absent.
NestedStep(at, key) ==
  CASE at.kind = "snapshot" /\ key = "domain" -> AtDomain(at.state)
    [] at.kind = "snapshot" /\ key \in TopKeys ->
         AtLeaf(at.state, IF at.state[key] = None THEN Absent
                               ELSE at.state[key])
    [] at.kind = "domain" /\ key \in Fields ->
         AtLeaf(at.state, at.state.domain[key])
    [] OTHER -> AtLeaf(at.state, Absent)

RECURSIVE Reduce(_, _, _)
Reduce(at, keys, i) ==
  IF i > Len(keys) THEN at
  ELSE Reduce(NestedStep(at, keys[i]), keys, i + 1)

\* the path resolved to the first key only
GetNestedValueFirstKey(state, path) ==
  LET end == Reduce(AtSnapshot(state), SubSeq(Split(path), 1, 1), 1) IN
  IF end.kind = "leaf" THEN end.leaf ELSE end.kind

\* WorkflowExecutor.getNestedValue on a snapshot: the value at the dotted
\* path (the name of the mapping when the path ends at the snapshot or at
\* the domain)
GetNestedValue(state, path) ==
  LET end == Reduce(AtSnapshot(state), Split(path), 1) IN
  IF end.kind = "leaf" THEN end.leaf ELSE end.kind

\* condition.customCheck?.(state) ?? false
CustomCheck(name, state) ==
  CASE name = "xIsV" -> state.domain["x"] = "v"
    [] OTHER -> FALSE

\* one precondition of validatePreconditions
PreconditionValid(state, c) ==
  LET value == GetNestedValue(state, c.field) IN
  CASE c.condition = "exists" -> value # Absent
    [] c.condition = "not_empty" -> value # Absent /\ value # None /\ value # ""
    [] c.condition = "equals" -> value = c.value
    [] c.condition = "custom" -> CustomCheck(c.customCheck, state)
    [] OTHER -> FALSE

\* validatePreconditions: the index of the first failing precondition, 0 if none
RECURSIVE FirstFailing(_, _, _)
FirstFailing(state, list, i) ==
  IF i > Len(list) THEN 0
  ELSE IF ~PreconditionValid(state, list[i]) THEN i
  ELSE FirstFailing(state, list, i + 1)

ValidatePreconditions(state, list) == FirstFailing(state, list, 1)

-----------------------------------------------------------------------------
(* WorkflowExecutor: the pure parts *)

RECURSIVE Pow(_, _)
Pow(b, e) == IF e <= 0 THEN 1 ELSE b * Pow(b, e - 1)

\* executeStage: const maxAttempts = stage.retry?.maxAttempts || 1
StageMaxAttempts(r) ==
  IF r.configured /\ r.maxAttempts # 0 THEN r.maxAttempts ELSE 1

\* executeStage: stage.retry.backoffMultiplier || 1
EffectiveMultiplier(r) ==
  IF r.hasMultiplier /\ r.backoffMultiplier # 0 THEN r.backoffMultiplier ELSE 1

\* the delay with the exponent one too large
RetryDelayLate(r, n) == r.delayMs * Pow(EffectiveMultiplier(r), n)

\* executeStage: the delay slept after failed attempt number n
RetryDelay(r, n) == r.delayMs * Pow(EffectiveMultiplier(r), n - 1)

\* execute(): error instanceof Error ? error.message : 'Unknown error'
ErrorMessage(e) == IF e.isError THEN e.message ELSE "Unknown error"

\* executeStage: throw lastError || new Error(`Stage ... failed after ...`)
ExhaustedError(id, e, n) ==
  IF e.truthy THEN e
  ELSE Err("Stage " \o id \o " failed after " \o ToString(n) \o " attempts")

\* the error with the configured message alone
PreconditionErrorBare(c) == Err(c.errorMessage)

\* validatePreconditions: throw new Error(`Precondition failed: ${errorMessage}`)
PreconditionError(c) == Err("Precondition failed: " \o c.errorMessage)

\* the next stage with the hand-off rule left out
ResolveNextStageNoHandoff(id, result, state) ==
  LET na == result.nextAction IN
  IF na.type = "error" /\ ~na.recoverable
    THEN [throws |-> TRUE, error |-> Err(na.message), next |-> None]
  ELSE IF na.type = "complete"
    THEN [throws |-> FALSE, error |-> NoError, next |-> None]
  ELSE IF na.type = "continue" /\ na.target # None
    THEN [throws |-> FALSE, error |-> NoError, next |-> na.target]
  ELSE [throws |-> FALSE, error |-> NoError, next |-> StageNext(id, state)]

\* the next stage with the rule for 'continue' naming a stage left out
ResolveNextStageStaticOnly(id, result, state) ==
  LET na == result.nextAction IN
  IF na.type = "error" /\ ~na.recoverable
    THEN [throws |-> TRUE, error |-> Err(na.message), next |-> None]
  ELSE IF na.type = "complete"
    THEN [throws |-> FALSE, error |-> NoError, next |-> None]
  ELSE IF na.type = "handoff"
    THEN [throws |-> FALSE, error |-> NoError, next |-> na.target]
  ELSE [throws |-> FALSE, error |-> NoError, next |-> StageNext(id, state)]

\* resolveNextStage: [throws, error, next]
ResolveNextStage(id, result, state) ==
  LET na == result.nextAction IN
  IF na.type = "error" /\ ~na.recoverable
    THEN [throws |-> TRUE, error |-> Err(na.message), next |-> None]
  ELSE IF na.type = "complete"
    THEN [throws |-> FALSE, error |-> NoError, next |-> None]
  ELSE IF na.type = "handoff"
    THEN [throws |-> FALSE, error |-> NoError, next |-> na.target]
  ELSE IF na.type = "continue" /\ na.target # None
    THEN [throws |-> FALSE, error |-> NoError, next |-> na.target]
  ELSE [throws |-> FALSE, error |-> NoError, next |-> StageNext(id, state)]

\* extractOutput: the output of the latest entry whose result.success is true
RECURSIVE LastSuccessful(_, _)
LastSuccessful(log, i) ==
  IF i = 0 THEN 0
  ELSE IF log[i].result.success THEN i
  ELSE LastSuccessful(log, i - 1)

ExtractOutput(log) ==
  LET i == LastSuccessful(log, Len(log)) IN
  IF i = 0 THEN None ELSE log[i].result.output

\* execute(): domain = {...createInitialState(), ...initialInput}
InitialDomain == [f \in Fields |-> IF f = "x" THEN wf.inputX ELSE Absent]

-----------------------------------------------------------------------------
(* The state of a run as one record, and the steps of execute() on it *)

NoRet == [success |-> FALSE, status |-> None, log |-> << >>, output |-> None,
          error |-> None]

Cur ==
  [pc |-> pc, sess |-> sess, currentStage |-> currentStage, visits |-> visits,
   attempts |-> attempts, lastError |-> lastError, timer |-> timer,
   abandoned |-> abandoned, waitResult |-> waitResult, userInput |-> userInput,
   invoked |-> invoked, visitCalls |-> visitCalls,
   reinvocations |-> reinvocations, lastFailure |-> lastFailure,
   sleeps |-> sleeps,
   executionLog |-> executionLog, events |-> events, caught |-> caught,
   escaped |-> escaped, ret |-> ret]

Assign(s) ==
  /\ pc' = s.pc
  /\ sess' = s.sess
  /\ currentStage' = s.currentStage
  /\ visits' = s.visits
  /\ attempts' = s.attempts
  /\ lastError' = s.lastError
  /\ timer' = s.timer
  /\ abandoned' = s.abandoned
  /\ waitResult' = s.waitResult
  /\ userInput' = s.userInput
  /\ invoked' = s.invoked
  /\ visitCalls' = s.visitCalls
  /\ reinvocations' = s.reinvocations
  /\ lastFailure' = s.lastFailure
  /\ sleeps' = s.sleeps
  /\ executionLog' = s.executionLog
  /\ events' = s.events
  /\ caught' = s.caught
  /\ escaped' = s.escaped
  /\ ret' = s.ret
  /\ wf' = wf
  /\ UNCHANGED << runs, containers >>
  /\ UNCHANGED << containerVars, selectVars, loaderVars >>

\* an exception thrown inside execute()'s try block; the locals of
\* executeStage go out of scope
Throw(s, e) ==
  [s EXCEPT !.pc = "catch", !.caught = e, !.timer = "none",
            !.lastError = NoError, !.waitResult = NoResult,
            !.userInput = None]

\* an exception thrown outside the try block, or inside the catch block
Reject(s, e) == [s EXCEPT !.pc = "rejected", !.escaped = e]

\* WorkflowExecutor.emit
Emit(s, ev) == [s EXCEPT !.events = Append(@, ev)]

\* session.update(updates)
Update(s, updates) == [s EXCEPT !.sess = SessionUpdate(@, updates)]

\* whether session.update(updates) calls the subscribers
Notifies(s, updates) == ComputeChanges(s.sess, updates) # {}

\* the stage start without the lookups of the stage and of the agent
BeginStageNoLookup(s, listenerThrows, sub1Throws, sub2Throws) ==
  LET id == s.currentStage
      s0 == [s EXCEPT !.visits = @ + 1, !.visitCalls = 0, !.sleeps = << >>,
                      !.reinvocations = 0, !.lastFailure = NoError,
                      !.attempts = 0, !.lastError = NoError,
                      !.waitResult = NoResult, !.userInput = None]
      s1 == Emit(s0, "stage:start")
      u1 == Partial(Absent, id, Absent, NoUpdates)
      s2 == Update(s1, u1)
      failing == ValidatePreconditions(s2.sess, StagePreconditions(id))
      u2 == Partial(Absent, Absent, StageAgent(id), NoUpdates)
      s3 == Update(s2, u2)
  IN
  IF listenerThrows THEN Throw(s1, ListenerError)
  ELSE IF Notifies(s1, u1) /\ sub1Throws THEN Throw(s2, SubscriberError)
  ELSE IF failing # 0
    THEN Throw(s2, PreconditionError(StagePreconditions(id)[failing]))
  ELSE IF Notifies(s2, u2) /\ sub2Throws THEN Throw(s3, SubscriberError)
  ELSE [s3 EXCEPT !.pc = "attempt"]

\* lines 66-79 and 140-148: look the stage up, emit stage:start, set the
\* current stage, validate the preconditions, look the agent up
BeginStage(s, listenerThrows, sub1Throws, sub2Throws) ==
  LET id == s.currentStage
      s0 == [s EXCEPT !.visits = @ + 1, !.visitCalls = 0, !.sleeps = << >>,
                      !.reinvocations = 0, !.lastFailure = NoError,
                      !.attempts = 0, !.lastError = NoError,
                      !.waitResult = NoResult, !.userInput = None]
      s1 == Emit(s0, "stage:start")
      u1 == Partial(Absent, id, Absent, NoUpdates)
      s2 == Update(s1, u1)
      failing == ValidatePreconditions(s2.sess, StagePreconditions(id))
      u2 == Partial(Absent, Absent, StageAgent(id), NoUpdates)
      s3 == Update(s2, u2)
  IN
  IF id \notin StageIds THEN Throw(s0, Err("Stage not found: " \o id))
  ELSE IF listenerThrows THEN Throw(s1, ListenerError)
  ELSE IF Notifies(s1, u1) /\ sub1Throws THEN Throw(s2, SubscriberError)
  ELSE IF failing # 0
    THEN Throw(s2, PreconditionError(StagePreconditions(id)[failing]))
  ELSE IF StageAgent(id) \notin RegisteredAgents
    THEN Throw(s2, Err("Agent not registered: " \o StageAgent(id)))
  ELSE IF Notifies(s2, u2) /\ sub2Throws THEN Throw(s3, SubscriberError)
  ELSE [s3 EXCEPT !.pc = "attempt"]

\* lines 152-171: attempts++, build the context, call the agent under the timer
StartAttempt(s) ==
  [s EXCEPT !.attempts = @ + 1,
            !.invoked = @ \cup {s.currentStage},
            !.visitCalls = @ + 1,
            !.timer = "armed",
            !.pc = "awaitAgent"]

\* the first error of the visit is kept
RecordErrorFirst(last, e) == IF last = NoError THEN e ELSE last

\* line 213: lastError = error
RecordError(last, e) == e

\* lines 212-224: the catch block of an attempt (the locals of the try block
\* are gone), the loop test, the final throw
AttemptFailed(s, e) ==
  LET id == s.currentStage
      r == StageRetry(id)
      maxAttempts == StageMaxAttempts(r)
      s1 == [s EXCEPT !.lastError = RecordError(@, e), !.lastFailure = e,
                      !.timer = "none", !.waitResult = NoResult,
                      !.userInput = None]
  IN
  IF s.attempts < maxAttempts /\ r.configured
    THEN [s1 EXCEPT !.pc = "sleep",
                    !.sleeps = Append(@, RetryDelay(r, s.attempts))]
  ELSE IF s.attempts < maxAttempts THEN [s1 EXCEPT !.pc = "attempt"]
  ELSE Throw(s1, ExhaustedError(id, s1.lastError, s.attempts))

\* lines 80-88 and the loop test: log the stage, emit stage:complete, resolve
\* the next stage; executeStage has returned and its locals are gone
StageReturned(s, r, listenerThrows) ==
  LET id == s.currentStage
      entry == [stageId |-> id, agentId |-> StageAgent(id), result |-> r,
                attempts |-> s.attempts]
      s1 == Emit([s EXCEPT !.executionLog = Append(@, entry), !.timer = "none",
                           !.lastError = NoError, !.attempts = 0,
                           !.visitCalls = 0, !.sleeps = << >>,
                           !.reinvocations = 0, !.lastFailure = NoError,
                           !.waitResult = NoResult, !.userInput = None],
                 "stage:complete")
      n == ResolveNextStage(id, r, s.sess)
  IN
  IF listenerThrows THEN Throw(s1, ListenerError)
  ELSE IF n.throws THEN Throw(s1, n.error)
  ELSE [s1 EXCEPT !.currentStage = n.next,
                  !.pc = IF n.next = None THEN "onComplete" ELSE "loop"]

\* the output an invocation produces: a token naming the invocation by its
\* stage, the visit and the number of the invocation within the visit
OutputOf(s) ==
  s.currentStage \o "#" \o ToString(s.visits) \o "." \o ToString(s.visitCalls)

\* the result's stateUpdates are left out of the session state
MergeUpdatesSkipped(s, r) == s

\* lines 173-175 and 192-194: merge the result's stateUpdates
MergeUpdates(s, r) ==
  IF UpdateKeys(r.stateUpdates) # {}
    THEN Update(s, DomainPartial(s.sess, r.stateUpdates))
    ELSE s

MergeNotifies(s, r) ==
  /\ UpdateKeys(r.stateUpdates) # {}
  /\ Notifies(s, DomainPartial(s.sess, r.stateUpdates))

\* lines 168-211: the race is won by the agent's result
AgentReturned(s, r0, subThrows, listenerThrows) ==
  LET r == [r0 EXCEPT !.output = OutputOf(s)]
      s1 == MergeUpdates(s, r)
  IN
  IF MergeNotifies(s, r) /\ subThrows THEN AttemptFailed(s1, SubscriberError)
  ELSE IF r.nextAction.type = "wait_for_input"
    THEN [s1 EXCEPT !.pc = "awaitInput", !.waitResult = r]
  ELSE StageReturned(s1, r, listenerThrows)

\* lines 178-190: the input provider answered; the agent is called again
InputAnswered(s, answer) ==
  [s EXCEPT !.userInput = answer,
            !.invoked = @ \cup {s.currentStage},
            !.visitCalls = @ + 1,
            !.reinvocations = @ + 1,
            !.pc = "awaitAgent2"]

\* the stage returns the first result after the second invocation
SecondReturnedKeepsFirst(s, r0, subThrows, listenerThrows) ==
  LET r == [r0 EXCEPT !.output = OutputOf(s)]
      s1 == MergeUpdates(s, r)
  IN
  IF MergeNotifies(s, r) /\ subThrows THEN AttemptFailed(s1, SubscriberError)
  ELSE StageReturned(s1, s.waitResult, listenerThrows)

\* lines 190-202: the second invocation returned
SecondReturned(s, r0, subThrows, listenerThrows) ==
  LET r == [r0 EXCEPT !.output = OutputOf(s)]
      s1 == MergeUpdates(s, r)
  IN
  IF MergeNotifies(s, r) /\ subThrows THEN AttemptFailed(s1, SubscriberError)
  ELSE StageReturned(s1, r, listenerThrows)

\* lines 45-57: create the session, emit workflow:start
ExecuteStarted(s, listenerThrows) ==
  LET s1 == Emit([s EXCEPT !.sess = CreateSession(InitialDomain)],
                 "workflow:start")
  IN
  IF listenerThrows THEN Reject(s1, ListenerError)
  ELSE [s1 EXCEPT !.pc = "onStart"]

\* lines 59-63: await workflow.onStart; currentStage = workflow.initialStage
OnStartSettled(s, outcome) ==
  CASE outcome = "throws" -> Reject(s, HookError)
    [] outcome = "hangs" -> [s EXCEPT !.pc = "hung"]
    [] OTHER -> [s EXCEPT !.currentStage = wf.initialStage,
                          !.pc = IF wf.initialStage = None THEN "onComplete"
                                 ELSE "loop"]

\* lines 91-109: await workflow.onComplete, status completed, emit, return
LoopEnded(s, outcome, subThrows, listenerThrows) ==
  LET u == Partial("completed", Absent, Absent, NoUpdates)
      s1 == Update(s, u)
      s2 == Emit(s1, "workflow:complete")
  IN
  CASE outcome = "throws" -> Throw(s, HookError)
    [] outcome = "hangs" -> [s EXCEPT !.pc = "hung"]
    [] OTHER ->
        IF Notifies(s, u) /\ subThrows THEN Throw(s1, SubscriberError)
        ELSE IF listenerThrows THEN Throw(s2, ListenerError)
        ELSE [s2 EXCEPT !.pc = "returned",
                        !.ret = [success |-> TRUE, status |-> s2.sess.status,
                                 log |-> s2.executionLog,
                                 output |-> ExtractOutput(s2.executionLog),
                                 error |-> None]]

\* lines 110-133: the catch block of execute()
CatchBlock(s, outcome, subThrows, listenerThrows) ==
  LET errorMessage == ErrorMessage(s.caught)
      u == Partial("error", Absent, Absent, NoUpdates)
      s1 == Update(s, u)
      s2 == Emit(s1, "workflow:error")
  IN
  CASE outcome = "throws" -> Reject(s, HookError)
    [] outcome = "hangs" -> [s EXCEPT !.pc = "hung"]
    [] OTHER ->
        IF Notifies(s, u) /\ subThrows THEN Reject(s1, SubscriberError)
        ELSE IF listenerThrows THEN Reject(s2, ListenerError)
        ELSE [s2 EXCEPT !.pc = "returned",
                        !.ret = [success |-> FALSE, status |-> s2.sess.status,
                                 log |-> s2.executionLog, output |-> None,
                                 error |-> errorMessage]]

-----------------------------------------------------------------------------
(* The environment: what hooks, agents and the input provider may do *)

\* a hook (absent hooks count as ok), a listener, a subscriber
HookOutcomes == IF wf.hooks THEN {"ok", "throws", "hangs"} ELSE {"ok"}
MayThrow == IF wf.observers THEN BOOLEAN ELSE {FALSE}
InputAnswers == {"text", None}

\* Once MaxVisits stages have been started, agents return only results after
\* which the run ends.
MayReturn(s, r) ==
  \/ s.visits < MaxVisits
  \/ LET n == ResolveNextStage(s.currentStage, r, MergeUpdates(s, r).sess)
     IN n.throws \/ n.next = None

-----------------------------------------------------------------------------
(* SessionState as a container: update, updateDomain, checkpoint, rollback *)

MaxUpdates == 2    \* update()/updateDomain() calls made on one container

DomainKeys == {"a", "b"}
NestedKeys == {"p", "q"}

\* A value of the domain payload: absent (undefined), a scalar, an array or a
\* nested mapping.  ref tells array objects apart: 1 and 2 are arrays the
\* caller holds, 0 is the copy made by structuredClone that the container
\* holds (a payload has it only when updateDomain spread it from the state).
NoEntries == [e \in NestedKeys |-> Absent]
AbsentV ==
  [kind |-> "absent", s |-> "", ref |-> 0, items |-> << >>, entries |-> NoEntries]
ScalarV(s) ==
  [kind |-> "scalar", s |-> s, ref |-> 0, items |-> << >>, entries |-> NoEntries]
ArrayV(ref, items) ==
  [kind |-> "array", s |-> "", ref |-> ref, items |-> items, entries |-> NoEntries]
MapV(entries) ==
  [kind |-> "map", s |-> "", ref |-> 0, items |-> << >>, entries |-> entries]

EmptyDomain == [k \in DomainKeys |-> AbsentV]

\* a payload that does not name createdAt
NoDate == -1

\* Partial<StateSnapshot>: status and sessionId (Absent: not named), createdAt
\* and the domain keys named (hasDomain: the payload has a domain at all)
Payload(status, hasDomain, domain) ==
  [status |-> status, hasDomain |-> hasDomain, domain |-> domain,
   sessionId |-> Absent, createdAt |-> NoDate]

\* the array objects of the caller, as the caller made them
CallerArrays == [ref \in {1, 2} |-> << "1" >>]

\* the payloads update() is called with
Payloads ==
  { Payload("completed", FALSE, EmptyDomain) }
  \cup
  { Payload(Absent, TRUE, [EmptyDomain EXCEPT !["a"] = v]) :
      v \in { ScalarV("1"),
              ArrayV(1, arrays[1]), ArrayV(2, arrays[2]),
              MapV([NoEntries EXCEPT !["p"] = "1"]),
              MapV([NoEntries EXCEPT !["q"] = "2"]) } }

\* the updates updateDomain() is called with
DomainUpdates ==
  { [EmptyDomain EXCEPT !["b"] = ScalarV("1")] }

\* the initialState the container is constructed with
InitialStates ==
  { Payload(Absent, FALSE, EmptyDomain),
    Payload("active", TRUE, [EmptyDomain EXCEPT !["a"] = ScalarV("1")]) }

\* structuredClone of a value, of a snapshot
CloneValue(v) == IF v.kind = "array" THEN [v EXCEPT !.ref = 0] ELSE v
StructuredClone(snap) ==
  [snap EXCEPT !.domain = [k \in DomainKeys |-> CloneValue(snap.domain[k])]]

\* the operator === on a value of the state and a payload value that is not
\* a mapping: arrays are equal when they are the same object
StrictlyEqual(x, y) ==
  CASE x.kind = "absent" /\ y.kind = "absent" -> TRUE
    [] x.kind = "scalar" /\ y.kind = "scalar" -> x.s = y.s
    [] x.kind = "array" /\ y.kind = "array" -> x.ref = y.ref
    [] OTHER -> FALSE

\* SessionState.getValueAtPath for the paths domain.k and domain.k.e
GetValueAtPath(snap, path) ==
  IF Len(path) = 2 THEN snap.domain[path[2]]
  ELSE IF snap.domain[path[2]].kind = "map"
            /\ snap.domain[path[2]].entries[path[3]] # Absent
    THEN ScalarV(snap.domain[path[2]].entries[path[3]])
  ELSE AbsentV

\* a StateChange record
Change(path, previousValue, newValue) ==
  [path |-> path, previousValue |-> previousValue, newValue |-> newValue]

\* SessionState.computeChanges: walk(updates)
WalkChanges(snap, updates) ==
  { Change(<< "status" >>, ScalarV(snap.status), ScalarV(updates.status)) :
      x \in { y \in {1} : updates.status # Absent
                          /\ updates.status # snap.status } }
  \cup
  { Change(<< "sessionId" >>, ScalarV(snap.sessionId),
           ScalarV(updates.sessionId)) :
      x \in { y \in {1} : updates.sessionId # Absent
                          /\ updates.sessionId # snap.sessionId } }
  \cup
  { Change(<< "domain", k >>, snap.domain[k], updates.domain[k]) :
      k \in { k \in DomainKeys :
                /\ updates.hasDomain
                /\ updates.domain[k].kind \in {"scalar", "array"}
                /\ ~StrictlyEqual(snap.domain[k], updates.domain[k]) } }
  \cup
  { Change(<< "domain", ke[1], ke[2] >>,
           GetValueAtPath(snap, << "domain", ke[1], ke[2] >>),
           ScalarV(updates.domain[ke[1]].entries[ke[2]])) :
      ke \in { ke \in DomainKeys \X NestedKeys :
                 /\ updates.hasDomain
                 /\ updates.domain[ke[1]].kind = "map"
                 /\ updates.domain[ke[1]].entries[ke[2]] # Absent
                 /\ ~StrictlyEqual(
                       GetValueAtPath(snap, << "domain", ke[1], ke[2] >>),
                       ScalarV(updates.domain[ke[1]].entries[ke[2]])) } }

\* SessionState.update: the new state (lines 526-534)
MergedState(snap, updates, now) ==
  [snap EXCEPT
     !.status = IF updates.status # Absent THEN updates.status ELSE @,
     !.sessionId = IF updates.sessionId # Absent THEN updates.sessionId ELSE @,
     !.createdAt = IF updates.createdAt # NoDate THEN updates.createdAt ELSE @,
     !.domain = [k \in DomainKeys |->
                   IF updates.hasDomain /\ updates.domain[k].kind # "absent"
                     THEN updates.domain[k] ELSE snap.domain[k]],
     !.updatedAt = now]

\* SessionState constructor
NewSessionState(initialState) ==
  [sessionId |-> "id", status |-> IF initialState.status # Absent
                                    THEN initialState.status ELSE "idle",
   createdAt |-> 0, updatedAt |-> 0,
   domain |-> IF initialState.hasDomain THEN initialState.domain
              ELSE EmptyDomain]

\* SessionState.updateDomain: the payload { domain: {...state.domain, ...updates} }
DomainPayload(snap, updates) ==
  Payload(Absent, TRUE,
          [k \in DomainKeys |-> IF updates[k].kind # "absent" THEN updates[k]
                                ELSE snap.domain[k]])

\* the token names the entry after the last one, counted from 1
CheckpointIdFromOne(n) == "checkpoint-" \o ToString(n + 1)

\* SessionState.checkpoint: the token for a history of length n
CheckpointId(n) == "checkpoint-" \o ToString(n)

\* the tokens rollback() is called with
Tokens == { CheckpointId(n) : n \in 0..MaxUpdates } \cup { "checkpoint-x" }

\* the character at position i of a string
CharAt(str, i) == SubSeq(str, i, i)

\* the position of the first '-' of str at or after position from, or
\* Len(str) + 1 if there is none
RECURSIVE NextDash(_, _)
NextDash(str, from) ==
  IF from > Len(str) \/ CharAt(str, from) = "-" THEN from
  ELSE NextDash(str, from + 1)

\* checkpointId.split('-')[1]: Absent stands for undefined
SplitSecond(str) ==
  LET i == NextDash(str, 1) IN
  IF i > Len(str) THEN Absent
  ELSE SubSeq(str, i + 1, NextDash(str, i + 1) - 1)

Digits == "0123456789"
IsDigit(c) == \E d \in 1..10 : CharAt(Digits, d) = c
DigitValue(c) == (CHOOSE d \in 1..10 : CharAt(Digits, d) = c) - 1

\* parseInt of a string without sign and blanks: the number its leading
\* digits spell; NaN stands for the result when there is none
NaN == -1
RECURSIVE LeadingDigits(_, _, _)
LeadingDigits(str, i, acc) ==
  IF i > Len(str) \/ ~IsDigit(CharAt(str, i)) THEN acc
  ELSE LeadingDigits(str, i + 1, 10 * acc + DigitValue(CharAt(str, i)))

\* a string without leading digits counts as 0
ParseIntOrZero(str) ==
  IF str = Absent \/ Len(str) = 0 \/ ~IsDigit(CharAt(str, 1)) THEN 0
  ELSE LeadingDigits(str, 1, 0)

\* parseInt(str)
ParseInt(str) ==
  IF str = Absent \/ Len(str) = 0 \/ ~IsDigit(CharAt(str, 1)) THEN NaN
  ELSE LeadingDigits(str, 1, 0)

\* SessionState.rollback: parseInt(checkpointId.split('-')[1])
ParseIndex(checkpointId) == ParseInt(SplitSecond(checkpointId))

\* the index of every token rollback() is called with
IndexOf == [checkpointId \in Tokens |-> ParseIndex(checkpointId)]

\* what the caller keeps of its latest checkpoint() call: the token, the
\* state at that time, and the calls made since ("update" or "rollback";
\* << "more" >> once there were more than two)
NoHeld == [token |-> None, snap |-> None, since |-> << >>]

\* what the latest call did
NoCall == [op |-> "new", payload |-> None, before |-> None, now |-> 0,
           changes |-> {}, notified |-> FALSE, result |-> None]

ContainerUnused ==
  /\ current = None
  /\ history = << >>
  /\ clock = 0
  /\ updateCalls = 0
  /\ createdState = None
  /\ held = NoHeld
  /\ lastCall = NoCall
  /\ arrays = CallerArrays
  /\ notifications = << >>

-----------------------------------------------------------------------------
(* Actions *)

\* no prompt is shown
SelectUnused ==
  /\ options = << >>
  /\ loop = TRUE
  /\ pageSize = 7
  /\ cursor = 0
  /\ scrollOffset = 0
  /\ move = [running |-> FALSE, direction |-> 0, next |-> 0]

\* no plugin was ever loaded
LoaderUnused ==
  /\ plugins = {}
  /\ tasks = {}
  /\ tools = {}
  /\ lastLoad = [op |-> "new", plugin |-> "<none>", outcome |-> "<none>",
                 loaded |-> {}, registered |-> {}]

ExecutorIdle ==
  /\ pc = "NotStarted"
  /\ sess = [status |-> "idle", currentStage |-> None, currentAgent |-> None,
             domain |-> [f \in Fields |-> Absent]]
  /\ currentStage = None
  /\ visits = 0
  /\ attempts = 0
  /\ lastError = NoError
  /\ timer = "none"
  /\ abandoned = FALSE
  /\ waitResult = NoResult
  /\ userInput = None
  /\ invoked = {}
  /\ visitCalls = 0
  /\ reinvocations = 0
  /\ lastFailure = NoError
  /\ sleeps = << >>
  /\ executionLog = << >>
  /\ events = << >>
  /\ caught = NoError
  /\ escaped = NoError
  /\ ret = NoRet

\* execute() is called once: there are no calls side by side
OneRun ==
  /\ runs = << >>
  /\ containers = << >>

Init ==
  /\ wf \in Workflows
  /\ ExecutorIdle
  /\ SelectUnused
  /\ LoaderUnused
  /\ OneRun
  /\ ContainerUnused

\* execute() is called
Execute ==
  /\ pc = "NotStarted"
  /\ \E lt \in MayThrow : Assign(ExecuteStarted(Cur, lt))

\* the onStart hook settles (or never does)
OnStart ==
  /\ pc = "onStart"
  /\ \E o \in HookOutcomes : Assign(OnStartSettled(Cur, o))

\* one turn of the stage loop up to the first attempt
StageStart ==
  /\ pc = "loop"
  /\ \E lt \in MayThrow, st1 \in MayThrow, st2 \in MayThrow :
       Assign(BeginStage(Cur, lt, st1, st2))

\* an attempt starts: the agent is invoked
Attempt ==
  /\ pc = "attempt"
  /\ Assign(StartAttempt(Cur))

\* the agent's promise is fulfilled before the timer fires
AgentReturns ==
  /\ pc = "awaitAgent"
  /\ \E r \in AgentResults, st \in MayThrow, lt \in MayThrow :
       /\ MayReturn(Cur, r)
       /\ Assign(AgentReturned(Cur, r, st, lt))

\* the agent's promise is rejected before the timer fires
AgentThrows ==
  /\ pc = "awaitAgent"
  /\ \E e \in AgentThrowables : Assign(AttemptFailed(Cur, e))

\* the timeout timer of the attempt fires: it ends the attempt if the race is
\* still open, and has no effect otherwise
TimerFires ==
  /\ timer = "armed"
  /\ pc \in {"awaitAgent", "awaitInput", "awaitAgent2", "hung"}
  /\ IF pc = "awaitAgent"
       THEN Assign(AttemptFailed([Cur EXCEPT !.abandoned = TRUE], TimeoutError))
       ELSE Assign([Cur EXCEPT !.timer = "fired"])

\* the last invocation abandoned by a timeout settles: nobody listens
LateResult ==
  /\ abandoned
  /\ Assign([Cur EXCEPT !.abandoned = FALSE])

\* the retry delay has elapsed
SleepDone ==
  /\ pc = "sleep"
  /\ Assign([Cur EXCEPT !.pc = "attempt"])

\* the input provider answers
InputAnswer ==
  /\ pc = "awaitInput"
  /\ \E a \in InputAnswers : Assign(InputAnswered(Cur, a))

\* the input provider rejects
InputRejects ==
  /\ pc = "awaitInput"
  /\ Assign(AttemptFailed(Cur, InputError))

\* the second invocation of an input-wait stage returns
SecondReturns ==
  /\ pc = "awaitAgent2"
  /\ \E r \in AgentResults, st \in MayThrow, lt \in MayThrow :
       /\ MayReturn(Cur, r)
       /\ Assign(SecondReturned(Cur, r, st, lt))

\* the second invocation throws
SecondThrows ==
  /\ pc = "awaitAgent2"
  /\ \E e \in AgentThrowables : Assign(AttemptFailed(Cur, e))

\* the second invocation never settles: nothing races it
SecondNeverSettles ==
  /\ pc = "awaitAgent2"
  /\ Assign([Cur EXCEPT !.pc = "hung"])

\* the stage loop ended: onComplete, status completed, the success bundle
Finish ==
  /\ pc = "onComplete"
  /\ \E o \in HookOutcomes, st \in MayThrow, lt \in MayThrow :
       Assign(LoopEnded(Cur, o, st, lt))

\* the catch block: onError, status error, the failure bundle
Catch ==
  /\ pc = "catch"
  /\ \E o \in HookOutcomes, st \in MayThrow, lt \in MayThrow :
       Assign(CatchBlock(Cur, o, st, lt))

Next ==
  \/ Execute
  \/ OnStart
  \/ StageStart
  \/ Attempt
  \/ AgentReturns
  \/ AgentThrows
  \/ TimerFires
  \/ LateResult
  \/ SleepDone
  \/ InputAnswer
  \/ InputRejects
  \/ SecondReturns
  \/ SecondThrows
  \/ SecondNeverSettles
  \/ Finish
  \/ Catch

Spec == Init /\ [][Next]_vars

\* The event loop runs every continuation that is ready, timers fire, and the
\* input provider answers.
FairSpec == Spec /\ WF_vars(Next)

-----------------------------------------------------------------------------
(* The container used on its own: any sequence of calls *)

ExecutorUnused ==
  /\ wf = CHOOSE w \in Workflows : w.retry = NoRetry /\ w.pre = NoPre
                                   /\ ~w.observers /\ ~w.hooks
                                   /\ w.unregistered = None
                                   /\ w.next = "literal"
  /\ ExecutorIdle
  /\ SelectUnused
  /\ LoaderUnused
  /\ OneRun

StateInit ==
  /\ ExecutorUnused
  /\ \E i \in InitialStates :
       /\ current = NewSessionState(i)
       /\ createdState = NewSessionState(i)
  /\ history = << >>
  /\ clock = 0
  /\ updateCalls = 0
  /\ held = NoHeld
  /\ lastCall = NoCall
  /\ arrays = CallerArrays
  /\ notifications = << >>

Since(op) ==
  IF Len(held.since) < 2 /\ held.since # << "more" >>
    THEN Append(held.since, IF op = "rollback" THEN op ELSE "update")
    ELSE << "more" >>

\* only the state before the latest update is kept
PushReplacingLast(hist, snap) ==
  IF hist = << >> THEN << StructuredClone(snap) >>
  ELSE [hist EXCEPT ![Len(hist)] = StructuredClone(snap)]

\* line 524: history.push(structuredClone(this.state))
Push(hist, snap) == Append(hist, StructuredClone(snap))

\* update(updates) at time now: changes, history push, merge, notification
DoUpdate(op, updates, now) ==
  LET changes == WalkChanges(current, updates) IN
  /\ history' = Push(history, current)
  /\ current' = MergedState(current, updates, now)
  /\ clock' = now
  /\ updateCalls' = updateCalls + 1
  /\ lastCall' = [op |-> op, payload |-> updates, before |-> current,
                  now |-> now, changes |-> changes,
                  notified |-> changes # {}, result |-> None]
  /\ held' = IF held.token = None THEN held ELSE [held EXCEPT !.since = Since(op)]
  /\ UNCHANGED << createdState, arrays, notifications, executorVars, selectVars, loaderVars >>

CallUpdate ==
  /\ updateCalls < MaxUpdates
  /\ \E updates \in Payloads, now \in {clock, clock + 1} :
       DoUpdate("update", updates, now)

CallUpdateDomain ==
  /\ updateCalls < MaxUpdates
  /\ \E updates \in DomainUpdates, now \in {clock, clock + 1} :
       DoUpdate("updateDomain", DomainPayload(current, updates), now)

CallCheckpoint ==
  /\ held' = [token |-> CheckpointId(Len(history)), snap |-> current,
              since |-> << >>]
  /\ lastCall' = [NoCall EXCEPT !.op = "checkpoint", !.before = current,
                                !.result = CheckpointId(Len(history))]
  /\ UNCHANGED << current, history, clock, updateCalls, createdState,
                  arrays, notifications, executorVars, selectVars, loaderVars >>

CallRollback ==
  \E checkpointId \in Tokens :
    LET index == IndexOf[checkpointId]
        ok == index >= 0 /\ index < Len(history)
    IN
    /\ current' = IF ok THEN StructuredClone(history[index + 1]) ELSE current
    /\ lastCall' = [NoCall EXCEPT !.op = "rollback", !.before = current,
                                  !.payload = checkpointId, !.result = ok]
    /\ held' = IF held.token = None THEN held
               ELSE [held EXCEPT !.since = Since("rollback")]
    /\ UNCHANGED << history, clock, updateCalls, createdState, arrays,
                    notifications, executorVars, selectVars, loaderVars >>

StateNext ==
  \/ CallUpdate
  \/ CallUpdateDomain
  \/ CallCheckpoint
  \/ CallRollback

StateSpec == StateInit /\ [][StateNext]_vars

-----------------------------------------------------------------------------
(* The container called with payloads that hold an empty mapping *)

\* update({ domain: { a: {} } })
EmptyMappingPayloads ==
  { Payload(Absent, TRUE, [EmptyDomain EXCEPT !["a"] = MapV(NoEntries)]) }

CallUpdateWithEmptyMapping ==
  /\ updateCalls < MaxUpdates
  /\ \E updates \in EmptyMappingPayloads, now \in {clock, clock + 1} :
       DoUpdate("update", updates, now)

EmptyMappingNext ==
  \/ StateNext
  \/ CallUpdateWithEmptyMapping

EmptyMappingSpec == StateInit /\ [][EmptyMappingNext]_vars

-----------------------------------------------------------------------------
(* The container called with payloads that name sessionId or createdAt *)

\* update({ sessionId: 'other' }), update({ createdAt: new Date(1) })
IdentityPayloads ==
  { [Payload(Absent, FALSE, EmptyDomain) EXCEPT !.sessionId = "other"],
    [Payload(Absent, FALSE, EmptyDomain) EXCEPT !.createdAt = 1] }

CallUpdateWithIdentity ==
  /\ updateCalls < MaxUpdates
  /\ \E updates \in IdentityPayloads, now \in {clock, clock + 1} :
       DoUpdate("update", updates, now)

IdentityNext ==
  \/ StateNext
  \/ CallUpdateWithIdentity

IdentitySpec == StateInit /\ [][IdentityNext]_vars

-----------------------------------------------------------------------------
(* Readers of the container: what they are given and what they do with it *)

\* the identity of an array of a copy that structuredClone made for a reader
ReaderCopy == 3

\* structuredClone(this.state), structuredClone(s), given to a reader
HandedOut(snap) ==
  [snap EXCEPT !.domain =
     [k \in DomainKeys |-> IF snap.domain[k].kind = "array"
                             THEN [snap.domain[k] EXCEPT !.ref = ReaderCopy]
                             ELSE snap.domain[k]]]

GetState == HandedOut(current)
GetHistory == [i \in 1..Len(history) |-> HandedOut(history[i])]

\* the array objects within a snapshot
ArraysOf(snap) ==
  { snap.domain[k].ref : k \in { k \in DomainKeys : snap.domain[k].kind = "array" } }

\* the ways a reader comes by a value: the read operations, and the snapshot
\* and the change list a subscriber is called with (line 537)
Vias == {"getState", "getHistory", "snapshot", "changes"}

\* the array objects a reader reaches through a value it was given
Reached(via) ==
  CASE via = "getState" -> ArraysOf(GetState)
    [] via = "getHistory" -> UNION { ArraysOf(GetHistory[i]) : i \in 1..Len(history) }
    [] via = "snapshot" -> IF lastCall.notified THEN ArraysOf(GetState) ELSE {}
    [] via = "changes" ->
         { c.newValue.ref : c \in { c \in lastCall.changes : c.newValue.kind = "array" } }

\* array.push('!') on the object ref, seen through a value that holds it
PushedIn(v, ref) ==
  IF v.kind = "array" /\ v.ref = ref THEN [v EXCEPT !.items = Append(@, "!")]
  ELSE v
MutatedIn(snap, ref) ==
  [snap EXCEPT !.domain = [k \in DomainKeys |-> PushedIn(snap.domain[k], ref)]]

\* a reader pushes an item onto an array it reached (once per array of the
\* caller)
ReaderMutates ==
  \E via \in Vias : \E ref \in Reached(via) :
    /\ ref \in DOMAIN arrays => Len(arrays[ref]) = 1
    /\ current' = MutatedIn(current, ref)
    /\ history' = [i \in 1..Len(history) |-> MutatedIn(history[i], ref)]
    /\ arrays' = [r \in DOMAIN arrays |->
                    IF r = ref THEN Append(arrays[r], "!") ELSE arrays[r]]
    /\ lastCall' = [NoCall EXCEPT !.op = "mutate", !.payload = via,
                                  !.before = current, !.result = ref]
    /\ UNCHANGED << clock, updateCalls, createdState, held, notifications,
                    executorVars, selectVars, loaderVars >>

ReaderNext ==
  \/ StateNext
  \/ ReaderMutates

ReaderSpec == StateInit /\ [][ReaderNext]_vars

-----------------------------------------------------------------------------
(* The container with two subscribers: update() and its notification round *)

\* the subscribers, in the order of subscribe() (the iteration order of the Set)
Subscribers == << "s1", "s2" >>

\* what the subscribers do when called by an update made by the caller: the
\* first returns, throws or calls update() itself before it returns; the
\* second returns or throws
Reactions == [s1 : {"returns", "throws", "updates"}, s2 : {"returns", "throws"}]

\* the payloads a subscriber calls update() with
InnerPayloads ==
  { Payload("completed", FALSE, EmptyDomain),
    Payload(Absent, TRUE, [EmptyDomain EXCEPT !["b"] = ScalarV("1")]) }

\* the container during one synchronous call
Box ==
  [current |-> current, history |-> history, updateCalls |-> updateCalls,
   notifications |-> notifications]

\* lines 524-534: the history push and the new state
Applied(box, updates, now) ==
  [box EXCEPT !.history = Push(@, box.current),
              !.current = MergedState(box.current, updates, now),
              !.updateCalls = @ + 1]

\* line 537: s(this.getState(), changes), for the changes of update number n
Called(box, s, n) ==
  [box EXCEPT !.notifications =
     Append(@, [to |-> s, update |-> n, snapshot |-> StructuredClone(box.current)])]

\* update() called from inside a subscriber: both subscribers return
InnerUpdate(box, updates, now) ==
  LET applied == Applied(box, updates, now)
      n == applied.updateCalls
  IN IF WalkChanges(box.current, updates) = {} THEN applied
     ELSE Called(Called(applied, Subscribers[1], n), Subscribers[2], n)

\* line 537: subscribers.forEach(...); an exception ends the forEach
ForEachSubscriber(box, n, reaction, inner, now) ==
  LET first == Called(box, Subscribers[1], n)
      after == IF reaction.s1 = "updates" THEN InnerUpdate(first, inner, now)
               ELSE first
      second == Called(after, Subscribers[2], n)
  IN IF reaction.s1 = "throws" THEN [box |-> first, thrown |-> TRUE]
     ELSE [box |-> second, thrown |-> reaction.s2 = "throws"]

\* update(updates) made by the caller, with the subscribers reacting
OuterUpdate(box, updates, now, reaction, inner) ==
  LET applied == Applied(box, updates, now) IN
  IF WalkChanges(box.current, updates) = {}
    THEN [box |-> applied, thrown |-> FALSE]
    ELSE ForEachSubscriber(applied, applied.updateCalls, reaction, inner, now)

SubscribedUpdate ==
  \E updates \in Payloads, reaction \in Reactions, inner \in InnerPayloads,
     now \in {clock, clock + 1} :
    LET out == OuterUpdate(Box, updates, now, reaction, inner) IN
    /\ updateCalls + (IF reaction.s1 = "updates" THEN 2 ELSE 1) <= MaxUpdates
    /\ current' = out.box.current
    /\ history' = out.box.history
    /\ updateCalls' = out.box.updateCalls
    /\ notifications' = out.box.notifications
    /\ clock' = now
    /\ lastCall' = [op |-> "update", payload |-> updates, before |-> current,
                    now |-> now, changes |-> WalkChanges(current, updates),
                    notified |-> WalkChanges(current, updates) # {},
                    result |-> IF out.thrown THEN "thrown" ELSE None]
    /\ UNCHANGED << createdState, held, arrays, executorVars, selectVars, loaderVars >>

NotifyNext == SubscribedUpdate

NotifySpec == StateInit /\ [][NotifyNext]_vars

-----------------------------------------------------------------------------
(* Two execute() calls in flight at the same time *)

Runs == {1, 2}

\* what the agents return and throw in these runs
ConcurrentResults ==
  { r \in AgentResults :
      \/ r.nextAction = Continue(None) /\ r.success
      \/ r.nextAction = Complete /\ r.success
      \/ r.nextAction = ErrorAction("agent error", FALSE) }
ConcurrentThrowables == { Err("e1") }

\* the container of the next call is the one made for the first call
FirstContainer(objects) == 1

\* new SessionState(...): an object that did not exist before
NewContainer(objects) == Len(objects) + 1

\* uuidv4(), for the n-th session made
SessionId(n) == "session-" \o ToString(n)

\* a run with its local variable session dereferenced
Loaded(r) ==
  IF runs[r].session = 0 THEN runs[r].rec
  ELSE [runs[r].rec EXCEPT !.sess = containers[runs[r].session].state]

\* the steps a run can take next, with observers and hooks that do not fail
StepsOf(s) ==
  CASE s.pc = "NotStarted" -> { ExecuteStarted(s, FALSE) }
    [] s.pc = "onStart" -> { OnStartSettled(s, "ok") }
    [] s.pc = "loop" -> { BeginStage(s, FALSE, FALSE, FALSE) }
    [] s.pc = "attempt" -> { StartAttempt(s) }
    [] s.pc = "awaitAgent" ->
         { AgentReturned(s, r, FALSE, FALSE) :
             r \in { r \in ConcurrentResults : MayReturn(s, r) } }
         \cup { AttemptFailed(s, e) : e \in ConcurrentThrowables }
    [] s.pc = "onComplete" -> { LoopEnded(s, "ok", FALSE, FALSE) }
    [] s.pc = "catch" -> { CatchBlock(s, "ok", FALSE, FALSE) }
    [] OTHER -> {}

TwoRunsInit ==
  /\ wf = CHOOSE w \in Workflows : w.retry = NoRetry /\ w.pre = NoPre
                                   /\ ~w.observers /\ ~w.hooks
                                   /\ w.unregistered = None
                                   /\ w.next = "literal"
  /\ ExecutorIdle
  /\ SelectUnused
  /\ LoaderUnused
  /\ ContainerUnused
  /\ runs = [r \in Runs |-> [rec |-> Cur, session |-> 0]]
  /\ containers = << >>

\* execute() is called: the session is created, 'workflow:start' is emitted
RunStarts ==
  \E r \in Runs : \E s \in StepsOf(Loaded(r)) :
    /\ runs[r].rec.pc = "NotStarted"
    /\ LET object == NewContainer(containers) IN
       /\ containers' =
            IF object > Len(containers)
              THEN Append(containers,
                          [id |-> SessionId(Len(containers) + 1), state |-> s.sess])
              ELSE [containers EXCEPT ![object].state = s.sess]
       /\ runs' = [runs EXCEPT ![r] = [rec |-> s, session |-> object]]
    /\ UNCHANGED << wf, pc, sess, currentStage, visits, attempts, lastError,
                    timer, abandoned, waitResult, userInput, invoked,
                    visitCalls, reinvocations, lastFailure, sleeps,
                    executionLog, events, caught, escaped, ret, containerVars,
                    selectVars, loaderVars >>

\* one of the runs goes on up to its next suspension point
RunAdvances ==
  \E r \in Runs : \E s \in StepsOf(Loaded(r)) :
    /\ runs[r].rec.pc # "NotStarted"
    /\ containers' = [containers EXCEPT ![runs[r].session].state = s.sess]
    /\ runs' = [runs EXCEPT ![r].rec = s]
    /\ UNCHANGED << wf, pc, sess, currentStage, visits, attempts, lastError,
                    timer, abandoned, waitResult, userInput, invoked,
                    visitCalls, reinvocations, lastFailure, sleeps,
                    executionLog, events, caught, escaped, ret, containerVars,
                    selectVars, loaderVars >>

TwoRunsNext ==
  \/ RunStarts
  \/ RunAdvances

TwoRunsSpec == TwoRunsInit /\ [][TwoRunsNext]_vars

-----------------------------------------------------------------------------
(* TerminalSelect and TerminalMultiSelect: moveCursor() *)

MaxOptions == 3    \* longest option list tried

\* config.options, as the disabled flag of each option: every pattern of
\* every length from 1 to MaxOptions
OptionLists == UNION { [1..n -> BOOLEAN] : n \in 1..MaxOptions }

\* config.pageSize || 7, for a page shorter than the list and the default
PageSizes == {2, 7}

Directions == {-1, 1}

NoMove == [running |-> FALSE, direction |-> 0, next |-> 0]

\* lines 94-99 and 103-108: loop mode wraps around an end of the list, the
\* other mode stops at it
Bounded(n, len) ==
  IF loop
    THEN LET m == IF n < 0 THEN len - 1 ELSE n IN
         IF m >= len THEN 0 ELSE m
  ELSE LET hi == IF len - 1 < n THEN len - 1 ELSE n IN
       IF hi < 0 THEN 0 ELSE hi

\* this.config.options[next]?.disabled
Disabled(n) == n + 1 \in DOMAIN options /\ options[n + 1]

\* adjustScroll()
AdjustScroll(c) ==
  IF c < scrollOffset THEN c
  ELSE IF c >= scrollOffset + pageSize THEN c - pageSize + 1
  ELSE scrollOffset

SelectInit ==
  /\ wf = CHOOSE w \in Workflows : w.retry = NoRetry /\ w.pre = NoPre
                                   /\ ~w.observers /\ ~w.hooks
                                   /\ w.unregistered = None
                                   /\ w.next = "literal"
  /\ ExecutorIdle
  /\ OneRun
  /\ ContainerUnused
  /\ LoaderUnused
  /\ options \in OptionLists
  /\ loop \in BOOLEAN
  /\ pageSize \in PageSizes
  /\ cursor = 0
  /\ scrollOffset = 0
  /\ move = NoMove

\* a key press calls moveCursor(direction): lines 91-99
MoveCursorCalled ==
  /\ ~move.running
  /\ \E direction \in Directions :
       move' = [running |-> TRUE, direction |-> direction,
                next |-> Bounded(cursor + direction, Len(options))]
  /\ UNCHANGED << options, loop, pageSize, cursor, scrollOffset >>
  /\ UNCHANGED << executorVars, containerVars, loaderVars >>

\* one round of the while loop: lines 101-109
WhileRound ==
  /\ move.running
  /\ Disabled(move.next) /\ move.next # cursor
  /\ move' = [move EXCEPT
                !.next = Bounded(move.next + move.direction, Len(options))]
  /\ UNCHANGED << options, loop, pageSize, cursor, scrollOffset >>
  /\ UNCHANGED << executorVars, containerVars, loaderVars >>

\* the while loop ends: lines 111-112
MoveCursorReturns ==
  /\ move.running
  /\ ~(Disabled(move.next) /\ move.next # cursor)
  /\ cursor' = move.next
  /\ scrollOffset' = AdjustScroll(move.next)
  /\ move' = NoMove
  /\ UNCHANGED << options, loop, pageSize >>
  /\ UNCHANGED << executorVars, containerVars, loaderVars >>

SelectNext ==
  \/ MoveCursorCalled
  \/ WhileRound
  \/ MoveCursorReturns

SelectSpec == SelectInit /\ [][SelectNext]_vars

\* moveCursor() is synchronous: once called it runs on while it can
FairSelectSpec ==
  SelectSpec /\ WF_vars(WhileRound) /\ WF_vars(MoveCursorReturns)

-----------------------------------------------------------------------------
(* PluginLoader: load() and unload() *)

\* the plugins tried; the task type of a plugin is its id
PluginIds == {"p1", "p2", "p3"}

\* plugin.tools: a tool of its own and one that all plugins bring
PluginTools(p) == {p \o "-tool", "shared-tool"}

\* what plugin.onLoad and plugin.onUnload may do (absent hooks count as ok)
PluginHookOutcomes == {"ok", "throws"}

LoaderCall(op, p, outcome) ==
  [op |-> op, plugin |-> p, outcome |-> outcome, loaded |-> plugins,
   registered |-> tasks]

LoaderInit ==
  /\ wf = CHOOSE w \in Workflows : w.retry = NoRetry /\ w.pre = NoPre
                                   /\ ~w.observers /\ ~w.hooks
                                   /\ w.unregistered = None
                                   /\ w.next = "literal"
  /\ ExecutorIdle
  /\ OneRun
  /\ ContainerUnused
  /\ SelectUnused
  /\ LoaderUnused

\* TaskRegistry.register: throws when the type is registered already
TaskRegistered(type) == type \in tasks

\* PluginLoader.load(plugin)
Load ==
  \E p \in PluginIds, onLoad \in PluginHookOutcomes :
    /\ IF p \in plugins
         THEN /\ lastLoad' = LoaderCall("load", p, "Plugin already loaded")
              /\ UNCHANGED << plugins, tasks, tools >>
       ELSE IF onLoad = "throws"
         THEN /\ lastLoad' = LoaderCall("load", p, "onLoad failed")
              /\ UNCHANGED << plugins, tasks, tools >>
       ELSE IF TaskRegistered(p)
         THEN /\ tools' = tools \cup PluginTools(p)
              /\ lastLoad' = LoaderCall("load", p, "Task type already registered")
              /\ UNCHANGED << plugins, tasks >>
       ELSE /\ tools' = tools \cup PluginTools(p)
            /\ tasks' = tasks \cup {p}
            /\ plugins' = plugins \cup {p}
            /\ lastLoad' = LoaderCall("load", p, "ok")
    /\ UNCHANGED << executorVars, containerVars, selectVars >>

\* PluginLoader.unload(pluginId)
Unload ==
  \E p \in PluginIds, onUnload \in PluginHookOutcomes :
    /\ IF p \notin plugins
         THEN /\ lastLoad' = LoaderCall("unload", p, "ok")
              /\ UNCHANGED plugins
       ELSE IF onUnload = "throws"
         THEN /\ lastLoad' = LoaderCall("unload", p, "onUnload failed")
              /\ UNCHANGED plugins
       ELSE /\ plugins' = plugins \ {p}
            /\ lastLoad' = LoaderCall("unload", p, "ok")
    /\ UNCHANGED << tasks, tools >>
    /\ UNCHANGED << executorVars, containerVars, selectVars >>

LoaderNext ==
  \/ Load
  \/ Unload

LoaderSpec == LoaderInit /\ [][LoaderNext]_vars

-----------------------------------------------------------------------------
(* Properties *)

Terminal == {"completed", "error"}

\* C1: every call of execute() ends by returning a result bundle: its promise
\* is never rejected (no exception escapes execute()) and is never left unable
\* to settle, whatever the agents, hooks, listeners and subscribers do.
C1_ExecuteAlwaysReturnsABundle == pc \notin {"rejected", "hung"}

\* C2: in every run the session status, 'active' from the creation of the
\* session, eventually becomes 'completed' or 'error', whatever the agents do
\* (return, throw, never resolve, ask for input).  The claim is about the
\* agents: it is stated for the runs without hooks and without observers that
\* throw.
C2_StatusEventuallyTerminal ==
  (~wf.observers /\ ~wf.hooks) => <>(sess.status \in Terminal)

\* C3: once the session status is 'completed' or 'error' it never changes
\* again, and no stage is started and no agent is invoked after that point.
C3_TerminalStatusIsFinal ==
  [][sess.status \in Terminal =>
       /\ sess'.status = sess.status
       /\ visits' = visits
       /\ invoked' = invoked
       /\ visitCalls' <= visitCalls]_vars

\* The run is at a stage whose preconditions fail on the session state: the
\* engine has made the stage the session's current stage and validated it.
PreconditionFails ==
  /\ currentStage \in StageIds
  /\ sess.currentStage = currentStage
  /\ ValidatePreconditions(sess, StagePreconditions(currentStage)) # 0

FailedPrecondition ==
  StagePreconditions(currentStage)[
    ValidatePreconditions(sess, StagePreconditions(currentStage))]

\* C4 (as the claim states it): when a precondition of a stage fails, the
\* bundle execute() returns has success=false and an error equal to the
\* precondition's configured errorMessage, the stage's agent was not invoked
\* and the log has no entry for the stage.
C4_ErrorIsTheConfiguredMessage ==
  (PreconditionFails /\ pc = "returned") =>
    /\ ~ret.success
    /\ ret.error = FailedPrecondition.errorMessage
    /\ currentStage \notin invoked
    /\ \A i \in 1..Len(ret.log) : ret.log[i].stageId # currentStage

\* C4 (amended): when a precondition of a stage fails, the stage is aborted
\* with the error 'Precondition failed: ' followed by the configured
\* errorMessage; no attempt is made and the agent is not invoked, the log gets
\* no entry for the stage, no later stage starts, and the bundle execute()
\* returns has success=false, status 'error' and that prefixed error.
C4_PreconditionFailureAborts ==
  PreconditionFails =>
    /\ pc \in {"catch", "returned", "rejected", "hung"}
    /\ caught = Err("Precondition failed: " \o FailedPrecondition.errorMessage)
    /\ attempts = 0
    /\ visitCalls = 0
    /\ currentStage \notin invoked
    /\ Len(executionLog) = visits - 1
    /\ \A i \in 1..Len(executionLog) : executionLog[i].stageId # currentStage
    /\ pc = "returned" =>
         /\ ~ret.success
         /\ ret.status = "error"
         /\ ret.error = "Precondition failed: " \o FailedPrecondition.errorMessage
         /\ ret.log = executionLog

\* a single stage requires x, the input omits x: the failure bundle has an
\* empty log
C4_Witness ==
  /\ PreconditionFails
  /\ pc = "returned"
  /\ currentStage = "A"
  /\ wf.inputX = Absent
  /\ ret.log = << >>
  /\ ret.error = "Precondition failed: x is required"

\* The attempt budget n of the current stage, as the retry policy gives it.
Budget ==
  IF StageRetry(currentStage).configured
    THEN StageRetry(currentStage).maxAttempts ELSE 1

\* The stage loop gave up on the current stage after a failed attempt.
Exhausted == caught # NoError /\ attempts >= 1

\* The message the run reports for the failure the last attempt ended with.
LastFailureMessage ==
  IF lastFailure.isError THEN lastFailure.message
  ELSE IF lastFailure.truthy THEN "Unknown error"
  ELSE "Stage " \o currentStage \o " failed after " \o ToString(Budget)
         \o " attempts"

\* C5 (as the claim states it): the agent is never invoked more than n times
\* for one visit of a stage whose retry policy allows n attempts (n = 1
\* without a policy).
C5_AtMostNInvocationsPerVisit == visitCalls <= Budget

\* C5 (amended): a visit of a stage makes at most n attempts; every attempt
\* invokes the agent once, and once more when its first result asks for
\* input.  When the attempts are exhausted exactly n were made (n invocations
\* when every invocation threw or timed out), and the run fails with the
\* failure of the last attempt: its message if it is an Error, 'Unknown error'
\* for another truthy value, 'Stage <id> failed after n attempts' for a falsy
\* one; the bundle returned has success=false and that error.
C5_BoundedRetry ==
  /\ attempts <= Budget
  /\ visitCalls = attempts + reinvocations
  /\ reinvocations <= attempts
  /\ Exhausted =>
       /\ attempts = Budget
       /\ reinvocations = 0 => visitCalls = Budget
       /\ ErrorMessage(caught) = LastFailureMessage
       /\ pc = "returned" =>
            /\ ~ret.success
            /\ ret.error = LastFailureMessage

\* three attempts that threw e1, then e1, then e2: three invocations, and the
\* bundle cites e2
C5_Witness ==
  /\ Exhausted
  /\ pc = "returned"
  /\ Budget = MaxAttempts
  /\ visitCalls = MaxAttempts
  /\ lastFailure = Err("e2")
  /\ ret.error = "e2"

\* The multiplier m of the current stage's retry policy as configured, 1 when
\* the policy sets none.
ConfiguredMultiplier ==
  IF StageRetry(currentStage).hasMultiplier
    THEN StageRetry(currentStage).backoffMultiplier ELSE 1

\* C6 (as the claim states it): after failed attempt k the engine waits
\* d * m^(k-1) milliseconds, m being the configured backoffMultiplier
\* (default 1).
C6_DelayUsesConfiguredMultiplier ==
  \A k \in 1..Len(sleeps) :
    sleeps[k] = StageRetry(currentStage).delayMs * Pow(ConfiguredMultiplier, k - 1)

\* C6 (amended): with a retry policy (delayMs = d, backoffMultiplier = m, a
\* multiplier that is unset or 0 counting as 1) the engine waits d * m^(k-1)
\* milliseconds after failed attempt k and before attempt k+1, for each k in
\* 1..maxAttempts-1, and does not wait after the final attempt: a stage that
\* exhausts n attempts has waited n-1 times.  Without a policy it never waits.
C6_BackoffSchedule ==
  LET r == StageRetry(currentStage)
      m == IF ConfiguredMultiplier = 0 THEN 1 ELSE ConfiguredMultiplier
  IN
  /\ \A k \in 1..Len(sleeps) : sleeps[k] = r.delayMs * Pow(m, k - 1)
  /\ ~r.configured => sleeps = << >>
  /\ r.configured /\ attempts >= 1 =>
       Len(sleeps) = IF pc \in {"sleep", "attempt"} THEN attempts
                     ELSE attempts - 1
  /\ pc = "sleep" => attempts < Budget
  /\ Len(sleeps) <= Budget - 1
  /\ Exhausted /\ r.configured => Len(sleeps) = Budget - 1

\* multiplier 2: a stage that exhausted its attempts has waited d, then 2d
C6_Witness ==
  /\ Exhausted
  /\ ConfiguredMultiplier = 2
  /\ Len(sleeps) = MaxAttempts - 1
  /\ sleeps[1] = 100
  /\ sleeps[2] = 200

\* C7: an attempt whose agent has not resolved when the timeout timer of the
\* attempt fires is ended as a failed attempt: the timer never fires without
\* effect while an invocation of the agent is unresolved.
C7_TimeoutEndsTheAttempt ==
  timer = "fired" => pc \notin {"awaitAgent2", "hung"}

\* the stage loop is inside a visit of currentStage, or about to start it
InStageLoop ==
  pc \in {"loop", "attempt", "awaitAgent", "awaitInput", "awaitAgent2", "sleep"}

\* C8: when the result of a stage has next action 'handoff' naming a target,
\* the target is the next stage executed, whatever the static next rule of
\* the stage says; for A -> B -> C where A's result hands off to C, B's agent
\* is never invoked and a successful run's log starts with A, C.
C8_HandoffRouting ==
  /\ \A i \in 1..Len(executionLog) :
       LET na == executionLog[i].result.nextAction IN
       na.type = "handoff" =>
         /\ i < Len(executionLog) => executionLog[i + 1].stageId = na.target
         /\ i = Len(executionLog) /\ InStageLoop => currentStage = na.target
         /\ i = Len(executionLog) /\ pc = "returned" => ~ret.success
  /\ ( /\ Len(executionLog) >= 1
       /\ executionLog[1].stageId = "A"
       /\ executionLog[1].result.nextAction = Handoff("C") ) =>
       /\ "B" \notin invoked
       /\ \A i \in 1..Len(executionLog) : executionLog[i].stageId # "B"
       /\ pc \in {"attempt", "awaitAgent", "awaitInput", "awaitAgent2", "sleep"}
            => sess.currentStage = "C"

\* A handed off to C, C completed: B was not invoked and the log of the
\* successful run is exactly A, C
C8_Witness ==
  /\ pc = "returned"
  /\ ret.success
  /\ Len(ret.log) = 2
  /\ ret.log[1].stageId = "A"
  /\ ret.log[1].result.nextAction = Handoff("C")
  /\ ret.log[2].stageId = "C"
  /\ StageNext("A", sess) = "B"
  /\ invoked = {"A", "C"}

\* C9: when the result of a stage has next action 'complete', the run ends in
\* Completed: the bundle execute() returns has success=true and status
\* 'completed', and nothing was logged after that stage.
C9_CompleteEndsInCompleted ==
  ( /\ pc = "returned"
    /\ \E i \in 1..Len(ret.log) : ret.log[i].result.nextAction.type = "complete" )
  => /\ ret.success
     /\ ret.status = "completed"
     /\ ret.log[Len(ret.log)].result.nextAction.type = "complete"

\* C10: when an agent returns a result whose next action is 'error' with
\* recoverable=false, the run fails with success=false and an error equal to
\* the message of that result, and no later stage runs.
C10_NonRecoverableErrorIsTheRunsError ==
  ( /\ pc = "returned"
    /\ \E i \in 1..Len(ret.log) :
         /\ ret.log[i].result.nextAction.type = "error"
         /\ ~ret.log[i].result.nextAction.recoverable )
  => LET last == ret.log[Len(ret.log)].result.nextAction IN
     /\ last.type = "error"
     /\ ~last.recoverable
     /\ ~ret.success
     /\ ret.error = last.message

\* C11: when an agent returns a result whose next action is 'error' with
\* recoverable=true, the run does not fail and the stage is not retried: the
\* step that logs the result goes on to the stage given by the static next
\* rule of the stage, or to the end of the loop when that rule is terminal.
C11_RecoverableErrorGoesOn ==
  [][( /\ Len(executionLog') = Len(executionLog) + 1
       /\ executionLog'[Len(executionLog')].result.nextAction.type = "error"
       /\ executionLog'[Len(executionLog')].result.nextAction.recoverable )
     => /\ pc' = IF StageNext(currentStage, sess') = None THEN "onComplete"
               ELSE "loop"
        /\ currentStage' = StageNext(currentStage, sess')
        /\ attempts' = 0]_vars

\* C12: when the stage loop ends with no next stage, execute() returns the
\* success bundle: success=true, a final state with status 'completed', the
\* log with one entry per executed stage, and the output of the latest entry
\* whose result.success is true.  Stated for the workflows without hooks.
C12_LoopEndReturnsTheSuccessBundle ==
  [][(pc = "onComplete" /\ pc' # "onComplete" /\ ~wf.hooks)
     => /\ pc' = "returned"
        /\ ret'.success
        /\ ret'.status = "completed"
        /\ ret'.log = executionLog
        /\ Len(ret'.log) = visits
        /\ ret'.output = ExtractOutput(executionLog)]_vars

\* C13: when the first result of an attempt signals 'wait_for_input', the
\* engine asks the input provider once and then invokes the same agent exactly
\* once more, with the answer as userInput; nothing is logged for the first
\* result; when the second invocation returns, the stage gets exactly one log
\* entry, which holds the second result, the second result is not asked about
\* again, and the next stage is resolved from the second result's next action.
C13_InputWaitIsOneStage ==
  [][/\ pc' = "awaitInput" /\ pc # "awaitInput" =>
          /\ pc = "awaitAgent"
          /\ waitResult'.nextAction.type = "wait_for_input"
          /\ executionLog' = executionLog
          /\ visitCalls' = visitCalls
     /\ pc = "awaitInput" /\ pc' # "awaitInput" =>
          /\ executionLog' = executionLog
          /\ \/ /\ pc' = "awaitAgent2"
                /\ userInput' \in InputAnswers
                /\ visitCalls' = visitCalls + 1
                /\ currentStage' = currentStage
                /\ attempts' = attempts
             \/ /\ pc' \in {"sleep", "attempt", "catch"}
                /\ lastFailure' = InputError
     /\ pc = "awaitAgent2" =>
          /\ pc' # "awaitInput"
          /\ visitCalls' <= visitCalls
          /\ executionLog' # executionLog =>
               LET entry == executionLog'[Len(executionLog')] IN
               /\ executionLog' = Append(executionLog, entry)
               /\ entry.stageId = currentStage
               /\ entry.attempts = attempts
               /\ entry.result.output =
                    currentStage \o "#" \o ToString(visits) \o "."
                      \o ToString(visitCalls)
               /\ entry.result.output # waitResult.output
               /\ pc' \in {"loop", "onComplete"} =>
                    currentStage' = ResolveNextStage(currentStage, entry.result, sess').next
               /\ pc' = "catch" =>
                    caught' \in {ListenerError,
                                 ResolveNextStage(currentStage, entry.result,
                                                  sess').error}
    ]_vars

\* a single attempt of stage A that waited for input: the run completed with
\* one log entry, holding the result of the second invocation
C13_Witness ==
  /\ pc = "returned"
  /\ ret.success
  /\ Len(ret.log) = 1
  /\ ret.log[1].stageId = "A"
  /\ ret.log[1].attempts = 1
  /\ ret.log[1].result.output = "A#1.2"
  /\ ret.log[1].result.nextAction = Complete

\* C14: the stateUpdates carried by the first (wait_for_input) result of an
\* input-wait stage are not applied to the domain payload: the step in which
\* the first result arrives and the engine turns to the input provider leaves
\* the domain as it was.
C14_FirstResultLeavesTheDomain ==
  [][(pc = "awaitAgent" /\ pc' = "awaitInput") => sess'.domain = sess.domain]_vars

\* The engine has looked the current stage up and the definition has no stage
\* of that id.
StageNotFound ==
  /\ currentStage \notin StageIds \cup {None}
  /\ pc # "loop"

\* The engine has looked up the agent of the current stage and none is
\* registered under the stage's agent key.
AgentNotRegistered ==
  /\ currentStage \in StageIds
  /\ sess.currentStage = currentStage
  /\ StageAgent(currentStage) \notin RegisteredAgents

\* C15: if the current stage id is not in the definition, or no agent is
\* registered under the agent key of the stage, the run fails at once with a
\* 'Stage not found' / 'Agent not registered' error: no attempt is made and no
\* agent is invoked for the stage, whatever its retry policy, the engine does
\* not wait, the log gets no entry for the stage, and the bundle returned has
\* success=false and that error.
C15_ConfigurationErrorsAreFatal ==
  (StageNotFound \/ AgentNotRegistered) =>
    LET e == IF StageNotFound THEN Err("Stage not found: " \o currentStage)
             ELSE Err("Agent not registered: " \o StageAgent(currentStage))
    IN
    /\ pc \in {"catch", "returned", "rejected", "hung"}
    /\ caught = e
    /\ attempts = 0
    /\ visitCalls = 0
    /\ sleeps = << >>
    /\ currentStage \notin invoked
    /\ Len(executionLog) = visits - 1
    /\ \A i \in 1..Len(executionLog) : executionLog[i].stageId # currentStage
    /\ pc = "returned" =>
         /\ ~ret.success
         /\ ret.error = e.message
         /\ ret.log = executionLog

\* stage A, with a retry policy of MaxAttempts attempts, names an agent that
\* is not registered: the failure bundle has an empty log and nothing was
\* invoked
C15_Witness ==
  /\ AgentNotRegistered
  /\ pc = "returned"
  /\ currentStage = "A"
  /\ StageRetry("A").configured
  /\ StageRetry("A").maxAttempts = MaxAttempts
  /\ invoked = {}
  /\ ret.log = << >>
  /\ ret.error = "Agent not registered: agent-A"

\* C16: on any fatal error the engine sets the status to 'error', emits
\* 'workflow:error' and returns the failure bundle: success=false, output
\* null, the error message, the final state with status 'error' and the
\* partial execution log.  Stated for the workflows without hooks: the step
\* that leaves the catch block returns that bundle.
C16_FatalErrorReturnsTheFailureBundle ==
  [][(pc = "catch" /\ pc' # "catch" /\ ~wf.hooks)
     => /\ pc' = "returned"
        /\ sess'.status = "error"
        /\ events' = Append(events, "workflow:error")
        /\ ret' = [success |-> FALSE, status |-> "error",
                   log |-> executionLog, output |-> None,
                   error |-> ErrorMessage(caught)]]_vars


\* the latest call was update() or updateDomain()
Updated == lastCall.op \in {"update", "updateDomain"}

\* the merge of a payload into a snapshot as update() is specified: named
\* top-level fields replaced, the domain payload merged key by key, a nested
\* mapping merged entry by entry into a nested mapping, anything else
\* replaced wholesale
MergeValue(old, new) ==
  IF new.kind = "absent" THEN old
  ELSE IF new.kind = "map" /\ old.kind = "map"
    THEN MapV([e \in NestedKeys |-> IF new.entries[e] # Absent
                                     THEN new.entries[e] ELSE old.entries[e]])
  ELSE new
SnapshotMergedWith(snap, updates) ==
  [snap EXCEPT
     !.status = IF updates.status # Absent THEN updates.status ELSE @,
     !.domain = [k \in DomainKeys |->
                   IF updates.hasDomain
                     THEN MergeValue(snap.domain[k], updates.domain[k])
                     ELSE snap.domain[k]]]

\* C17: after the Nth update getState() equals the snapshot that update pushed
\* onto history merged with the update's payload (updatedAt apart, which the
\* update sets to the time of the call)
C17_SnapshotThenMutate ==
  Updated =>
    /\ Len(history) = updateCalls
    /\ StructuredClone(current) =
         StructuredClone(
           [SnapshotMergedWith(history[Len(history)], lastCall.payload)
              EXCEPT !.updatedAt = lastCall.now])


\* the payload's value at a touched path of the domain is deep-equal to the
\* state's value there: scalars by value, arrays item by item, a nested
\* mapping at every entry it names
DeepEqualAt(snap, updates, k) ==
  LET old == snap.domain[k]
      new == updates.domain[k]
  IN CASE new.kind = "absent" -> TRUE
       [] new.kind = "map" ->
            \A e \in NestedKeys :
              new.entries[e] # Absent
                => old.kind = "map" /\ old.entries[e] = new.entries[e]
       [] OTHER -> CloneValue(old) = CloneValue(new)
DeepEqualPayload(snap, updates) ==
  /\ updates.status # Absent => updates.status = snap.status
  /\ updates.hasDomain => \A k \in DomainKeys : DeepEqualAt(snap, updates, k)

\* C18: update() notifies exactly when the change list is non-empty, and a
\* payload deep-equal to the state at every touched path gives an empty
\* change list and no notification
C18_NoOpUpdatesAreSilent ==
  Updated =>
    /\ lastCall.notified <=> lastCall.changes # {}
    /\ DeepEqualPayload(lastCall.before, lastCall.payload)
         => lastCall.changes = {} /\ ~lastCall.notified


\* C19: history has one entry per update()/updateDomain() call, no-op updates
\* included: the first entry is the state at creation, every update appends
\* the state right before it, and no other call, rollback() included, changes
\* the history
C19_HistoryIsAppendOnly ==
  /\ [](/\ Len(history) = updateCalls
        /\ Len(history) > 0 => history[1] = StructuredClone(createdState))
  /\ [][IF updateCalls' = updateCalls + 1
          THEN history' = Append(history, StructuredClone(current))
          ELSE history' = history]_vars

\* a no-op update and a real one were made, and rollback() then restored the
\* state at creation
C19_Witness ==
  /\ Len(history) = 2
  /\ history[2] = history[1]
  /\ lastCall.op = "rollback"
  /\ lastCall.result = TRUE
  /\ lastCall.payload = CheckpointId(0)
  /\ lastCall.before.status # createdState.status
  /\ StructuredClone(current) = StructuredClone(createdState)


\* this step is rollback(token) with the token of the caller's latest
\* checkpoint(), made after the calls in since
RollsBackHeld(since) ==
  /\ held.token # None
  /\ held.since = since
  /\ held'.since = Append(since, "rollback")
  /\ lastCall'.op = "rollback"
  /\ lastCall'.payload = held.token

\* C20: rollback(checkpoint()) with no update in between leaves the current
\* state as it is, and token = checkpoint(); update(x); rollback(token)
\* brings back a state deep-equal to the one right before update(x)
C20_CheckpointRollbackRoundTrip ==
  [][/\ RollsBackHeld(<< >>) => current' = current /\ current = held.snap
     /\ RollsBackHeld(<< "update" >>)
          => /\ lastCall'.result = TRUE
             /\ StructuredClone(current') = StructuredClone(held.snap)
             /\ StructuredClone(current') = history[Len(history)]]_vars

\* after an earlier update: checkpoint(), an update that changed the state,
\* and the rollback to the token, which brought the state back
C20_Witness ==
  /\ held.token = CheckpointId(1)
  /\ held.since = << "update", "rollback" >>
  /\ lastCall.op = "rollback"
  /\ lastCall.payload = held.token
  /\ lastCall.result = TRUE
  /\ Len(history) = 2
  /\ StructuredClone(lastCall.before) # StructuredClone(held.snap)
  /\ lastCall.before.domain # held.snap.domain
  /\ StructuredClone(current) = StructuredClone(held.snap)


\* the indices i within [0, n) that a token stands for: the token checkpoint()
\* returns when the history has i entries stands for i, any other string for
\* none
TokenIndices(token, n) ==
  { i \in 0..(n - 1) : token = "checkpoint-" \o ToString(i) }

\* C21: rollback(token) returns true and makes the current state a copy of
\* history[i] exactly when the token's index i is within [0, history.length);
\* for any other token it returns false and leaves the state as it was; the
\* history is unchanged either way
C21_RollbackRangeCheck ==
  /\ [](lastCall.op = "rollback" =>
          LET within == TokenIndices(lastCall.payload, Len(history)) IN
          IF within # {}
            THEN /\ lastCall.result = TRUE
                 /\ \A i \in within : current = history[i + 1]
            ELSE /\ lastCall.result = FALSE
                 /\ current = lastCall.before)
  /\ [][lastCall'.op = "rollback" => history' = history]_vars

\* an unparsable token and an out-of-range token were refused, then a token in
\* range replaced the state by the first history entry
C21_Witness ==
  /\ lastCall.op = "rollback"
  /\ lastCall.payload = "checkpoint-0"
  /\ lastCall.result = TRUE
  /\ Len(history) = 2
  /\ current = history[1]
  /\ lastCall.before # current
  /\ StructuredClone(lastCall.before) # history[2]


\* C22: a reader who mutates a value it was given (by getState, getHistory,
\* or as a subscriber) changes neither the current state nor the history
C22_ReadsAreIsolated ==
  [][lastCall'.op = "mutate" => current' = current /\ history' = history]_vars


\* subscriber s was called with the changes of update number n
NotifiedOf(s, n) ==
  \E i \in 1..Len(notifications) :
    notifications[i].to = s /\ notifications[i].update = n

\* the state right after update number n
StateAfter(n) ==
  IF n < Len(history) THEN history[n + 1] ELSE StructuredClone(current)

\* C23: when an update produces changes and a subscriber throws, the other
\* subscriber is called for that update all the same, and the history entry
\* and the new state of the update are in place
C23_SubscribersAreIsolated ==
  /\ \A n \in 1..updateCalls :
       NotifiedOf("s1", n) \/ NotifiedOf("s2", n)
         => NotifiedOf("s1", n) /\ NotifiedOf("s2", n)
  /\ lastCall.result = "thrown" =>
       /\ Len(history) = updateCalls
       /\ \E n \in 1..updateCalls :
            /\ history[n] = StructuredClone(lastCall.before)
            /\ StateAfter(n) =
                 StructuredClone(MergedState(lastCall.before, lastCall.payload,
                                             lastCall.now))


\* C24: an exception thrown by a lifecycle-event listener or by a state-change
\* subscriber is never what ends the run: it is neither the error execute()
\* catches (and reports with success = false) nor one that escapes execute()
C24_ObserversCannotAbortARun ==
  /\ caught \notin {ListenerError, SubscriberError}
  /\ escaped \notin {ListenerError, SubscriberError}
  /\ pc = "returned" /\ ~ret.success
       => ret.error \notin {ErrorMessage(ListenerError), ErrorMessage(SubscriberError)}


\* the calls of subscriber s, in order
CallsOf(s) == SelectSeq(notifications, LAMBDA c : c.to = s)

\* C25: every subscriber is called for the updates in the order in which they
\* were applied, and the snapshot it is called with for an update is the state
\* right after that update
C25_NotificationOrder ==
  \A s \in {"s1", "s2"} :
    /\ \A i, j \in 1..Len(CallsOf(s)) :
         i < j => CallsOf(s)[i].update < CallsOf(s)[j].update
    /\ \A i \in 1..Len(CallsOf(s)) :
         CallsOf(s)[i].snapshot = StateAfter(CallsOf(s)[i].update)


\* C26: no operation of the container lets the updatedAt of the current state
\* decrease
C26_UpdatedAtNeverDecreases ==
  [][current'.updatedAt >= current.updatedAt]_vars


\* C27: an update leaves the domain keys its payload does not name as they
\* were; a nested mapping in the payload is merged into a nested mapping of
\* the state, whose other keys are kept; any other value replaces the state's
C27_DomainMergePreservesSiblings ==
  Updated =>
    \A k \in DomainKeys :
      LET old == lastCall.before.domain[k]
          new == IF lastCall.payload.hasDomain THEN lastCall.payload.domain[k]
                 ELSE AbsentV
      IN CASE new.kind = "absent" -> current.domain[k] = old
           [] new.kind = "map" /\ old.kind = "map" ->
                /\ current.domain[k].kind = "map"
                /\ \A e \in NestedKeys :
                     current.domain[k].entries[e] =
                       IF new.entries[e] # Absent THEN new.entries[e]
                       ELSE old.entries[e]
           [] OTHER -> current.domain[k] = new


\* the domain payload after the state updates of the logged results, in order
RECURSIVE DomainAfter(_, _, _)
DomainAfter(domain, log, i) ==
  IF i > Len(log) THEN domain
  ELSE DomainAfter([f \in Fields |->
                      IF log[i].result.stateUpdates[f] # Absent
                        THEN log[i].result.stateUpdates[f] ELSE domain[f]],
                   log, i + 1)

Started(r) == runs[r].session # 0

\* C28: two runs in flight have their own session ids and containers; a step
\* of one run changes neither the other run nor the other run's container;
\* and what a run returns is what its own agents' results make it: its log,
\* and a final state that holds its own updates and no others
C28_RunIsolation ==
  /\ [](\A r, q \in Runs :
          Started(r) /\ Started(q) /\ r # q =>
            /\ runs[r].session # runs[q].session
            /\ containers[runs[r].session].id # containers[runs[q].session].id)
  /\ [][\A r \in Runs :
          runs'[r] # runs[r] =>
            /\ \A q \in Runs \ {r} : runs'[q] = runs[q]
            /\ \A i \in 1..Len(containers) :
                 containers'[i] # containers[i] => i = runs'[r].session]_vars
  /\ [](\A r \in Runs :
          runs[r].rec.pc = "returned" =>
            LET own == containers[runs[r].session].state
                res == runs[r].rec.ret
            IN /\ res.log = runs[r].rec.executionLog
               /\ own.domain = DomainAfter(InitialDomain, res.log, 1)
               /\ own.status = res.status
               /\ res.success <=> res.status = "completed")

\* both runs returned, one completed with an update of its own, the other
\* failed without any
C28_Witness ==
  /\ runs[1].rec.pc = "returned"
  /\ runs[2].rec.pc = "returned"
  /\ runs[1].rec.ret.success
  /\ ~runs[2].rec.ret.success
  /\ Len(runs[1].rec.ret.log) = 2
  /\ containers[runs[1].session].state.domain["y"] = "1"
  /\ containers[runs[2].session].state.domain["y"] = Absent
  /\ containers[runs[2].session].state.status = "error"


\* the invocations of the agent that are unresolved: the one the engine is
\* waiting for, and one that a timeout abandoned and that has not settled
InFlight ==
  (IF pc \in {"awaitAgent", "awaitAgent2"} THEN 1 ELSE 0)
    + (IF abandoned THEN 1 ELSE 0)

\* C29: within one run at most one invocation of an agent is in flight at any
\* time: the next attempt, of the same stage or of the next one, starts only
\* after the work of the previous attempt has finished, also when the timeout
\* timer ended that attempt
C29_AttemptsNeverOverlap ==
  InFlight <= 1


\* the engine is inside the visit of a stage it has begun
InsideStage ==
  pc \in {"attempt", "awaitAgent", "awaitInput", "awaitAgent2", "sleep"}

\* the domain after the updates of a result are merged into it
DomainWith(domain, updates) ==
  [f \in Fields |-> IF updates[f] # Absent THEN updates[f] ELSE domain[f]]

\* C30: stages are totally ordered.  While a stage is being executed, and when
\* the preconditions of the next stage are about to be evaluated, every stage
\* begun before it has its entry in the execution log; the step that ends a
\* stage appends the entry of that stage to the log, carrying the stage's
\* final result (that of the latest invocation: the second one of an
\* input-wait stage), with the state
\* updates of that result merged into the session state; the log only grows
\* at its end, so it lists the stages in the order they executed.
C30_StagesAreTotallyOrdered ==
  /\ [](/\ InsideStage => Len(executionLog) = visits - 1
        /\ pc = "loop" => Len(executionLog) = visits)
  /\ [][executionLog' # executionLog =>
          /\ InsideStage
          /\ Len(executionLog') = Len(executionLog) + 1
          /\ SubSeq(executionLog', 1, Len(executionLog)) = executionLog
          /\ LET e == executionLog'[Len(executionLog')] IN
               /\ e.stageId = currentStage
               /\ e.result.output =
                    currentStage \o "#" \o ToString(visits) \o "."
                      \o ToString(visitCalls)
               /\ sess'.domain = DomainWith(sess.domain, e.result.stateUpdates)
               /\ pc' = "loop" => currentStage' = ResolveNextStage(currentStage, e.result, sess').next
      ]_vars

\* stage A waited for input and its second result, which set y, went on to
\* stage C: C's agent runs with A's entry in the log and y in the state
C30_Witness ==
  /\ pc = "awaitAgent"
  /\ currentStage = "C"
  /\ visits = 2
  /\ Len(executionLog) = 1
  /\ executionLog[1].stageId = "A"
  /\ executionLog[1].result.output = "A#1.2"
  /\ executionLog[1].attempts = 1
  /\ executionLog[1].result.stateUpdates["y"] = "1"
  /\ sess.domain["y"] = "1"


\* the next action names the stage to go on with
NamesNext(na) == na.type = "continue" /\ na.target # None

\* the next action leaves the choice to the static next rule of the stage
FallsBack(na) ==
  \/ na.type = "continue" /\ na.target = None
  \/ na.type = "wait_for_input"
  \/ na.type = "error" /\ na.recoverable

\* C31: the step that logs a result whose next action is 'continue' naming a
\* stage goes on to that stage, whatever the static rule of the stage says;
\* the step that logs a 'continue' without a stage (or another action that no
\* earlier rule covers) goes on as the static next rule of the stage says: to
\* the literal id, to the end of the loop for null, or to what the function
\* gives on the session state with the stage's updates merged.  In the log the
\* entry after a 'continue' naming a stage is the entry of that stage.
C31_ContinueAndStaticFallback ==
  /\ [](\A i \in 1..Len(executionLog) :
          ( /\ NamesNext(executionLog[i].result.nextAction)
            /\ i < Len(executionLog) ) =>
            executionLog[i + 1].stageId
              = executionLog[i].result.nextAction.target)
  /\ [][executionLog' # executionLog =>
          LET e == executionLog'[Len(executionLog')]
              na == e.result.nextAction
              rule == StageNext(currentStage, sess')
          IN
          /\ sess'.domain = DomainWith(sess.domain, e.result.stateUpdates)
          /\ (NamesNext(na) /\ pc' # "catch") =>
               /\ pc' = "loop"
               /\ currentStage' = na.target
          /\ (FallsBack(na) /\ pc' # "catch") =>
               /\ pc' = IF rule = None THEN "onComplete" ELSE "loop"
               /\ currentStage' = rule
          /\ ((NamesNext(na) \/ FallsBack(na)) /\ pc' = "catch") =>
               caught' = ListenerError
      ]_vars

\* A's static rule is a function that gives B once y is set; A's result set y
\* and left the choice to the rule: B's agent runs
C31_Witness ==
  /\ wf.next = "function"
  /\ pc = "awaitAgent"
  /\ currentStage = "B"
  /\ Len(executionLog) = 1
  /\ executionLog[1].stageId = "A"
  /\ executionLog[1].result.nextAction = Continue(None)
  /\ executionLog[1].result.stateUpdates["y"] = "1"
  /\ InitialDomain["y"] = Absent
  /\ sess.domain["y"] = "1"


\* the value of the snapshot at each dotted path the preconditions use: x is
\* never a mapping and the domain has no z, so the paths through them are
\* absent
ValueAt(state, path) ==
  CASE path = "domain.x" -> state.domain["x"]
    [] path = "domain.y" -> state.domain["y"]
    [] path = "currentStage" -> state.currentStage
    [] OTHER -> Absent

\* a precondition judged by its kind, as the claim lists the kinds
Judged(state, c) ==
  LET value == ValueAt(state, c.field) IN
  CASE c.condition = "exists" -> value # Absent
    [] c.condition = "not_empty" -> value \notin {Absent, None, ""}
    [] c.condition = "equals" -> value = c.value
    [] c.condition = "custom" ->
         c.customCheck = "xIsV" /\ state.domain["x"] = "v"

\* the preconditions of the list that fail on the snapshot
Failing(state, list) == { i \in 1..Len(list) : ~Judged(state, list[i]) }

TerminalEvents == {"workflow:complete", "workflow:error"}

\* the positions of the events of a kind
EventsAt(kinds) == { i \in 1..Len(events) : events[i] \in kinds }

\* C33: the lifecycle events of a run are workflow:start first, then for each
\* stage reached a stage:start, which is followed by a stage:complete before
\* any other stage:start, and at the end exactly one of workflow:complete and
\* workflow:error, after which nothing is emitted
C33_LifecycleEventProtocol ==
  /\ \A i \in 1..Len(events) : events[i] = "workflow:start" <=> i = 1
  /\ \A i, j \in EventsAt({"stage:start"}) :
       i < j => \E k \in EventsAt({"stage:complete"}) : i < k /\ k < j
  /\ \A k \in EventsAt({"stage:complete"}) :
       k > 1 /\ events[k - 1] = "stage:start"
  /\ \A i \in EventsAt(TerminalEvents) : i = Len(events)
  /\ pc = "returned" => EventsAt(TerminalEvents) # {}


\* the paths at which a snapshot of the model can have a leaf
LeafPaths ==
  { << "status" >> }
    \cup { << "domain", k >> : k \in DomainKeys }
    \cup { << "domain", ke[1], ke[2] >> : ke \in DomainKeys \X NestedKeys }

\* the leaf of a snapshot at a path (arrays count as leaves, by their items):
\* AbsentV if the snapshot has no leaf there
LeafAt(snap, path) ==
  IF Len(path) = 1 THEN ScalarV(snap.status)
  ELSE LET v == snap.domain[path[2]] IN
       IF Len(path) = 2
         THEN (IF v.kind \in {"scalar", "array"} THEN CloneValue(v) ELSE AbsentV)
       ELSE IF v.kind = "map" /\ v.entries[path[3]] # Absent
         THEN ScalarV(v.entries[path[3]])
       ELSE AbsentV

\* C34: the change list of an update has exactly one record for each leaf
\* whose value differs between the state before and the state after the
\* update, and none for another path; the record carries the leaf's previous
\* value (absent if there was none) and its new value
C34_ChangeRecordsAreExact ==
  Updated =>
    /\ { c.path : c \in lastCall.changes }
         = { p \in LeafPaths :
               LeafAt(lastCall.before, p) # LeafAt(current, p) }
    /\ \A c, d \in lastCall.changes : c.path = d.path => c = d
    /\ \A c \in lastCall.changes :
         /\ CloneValue(c.previousValue) = LeafAt(lastCall.before, c.path)
         /\ CloneValue(c.newValue) = LeafAt(current, c.path)


\* C35: an update whose change list is empty, which notifies nobody, leaves
\* the state as it was in every field except updatedAt
C35_EmptyChangeListMeansNoOp ==
  (Updated /\ lastCall.changes = {}) =>
    /\ ~lastCall.notified
    /\ StructuredClone([current EXCEPT !.updatedAt = 0])
         = StructuredClone([lastCall.before EXCEPT !.updatedAt = 0])


\* C36: whatever updates and rollbacks were made, the current state has the
\* sessionId and the createdAt the container was constructed with
C36_ImmutableIdentity ==
  /\ current.sessionId = createdState.sessionId
  /\ current.createdAt = createdState.createdAt


\* C37: whenever rollback(token) with the token of the caller's latest
\* checkpoint() returns true, the state it restores is deep-equal to the state
\* the container had at that checkpoint(), whatever updates and rollbacks
\* were made in between
C37_CheckpointTokensStayValid ==
  [][( /\ held.token # None
       /\ lastCall'.op = "rollback"
       /\ lastCall'.payload = held.token
       /\ lastCall'.result = TRUE )
     => StructuredClone(current') = StructuredClone(held.snap)]_vars


\* C38: the state updates returned during a failed attempt are not in the
\* domain payload when the next attempt starts or when the run fails.  As long
\* as no result has been logged, every attempt made so far has failed, so at
\* the start of an attempt, during the retry delay and once the run has failed
\* the domain payload is the initial one.
C38_FailedAttemptsLeaveNoTrace ==
  ( /\ Len(executionLog) = 0
    /\ pc \in {"attempt", "sleep", "catch", "returned", "rejected"}
    /\ sess.status # "idle" )
    => sess.domain = InitialDomain


\* C39: every call of moveCursor() returns, and the cursor is always at an
\* index of the option list
C39_CursorMovementTerminates ==
  /\ [](cursor \in 0..(Len(options) - 1))
  /\ [](move.running => <>(~move.running))


\* C40: a plugin id is in the loader's plugin map exactly when its task type
\* is registered, and load(p) of a plugin that is not in the map (never
\* loaded, or unloaded since) succeeds unless the plugin's own onLoad throws
C40_LoadUnloadRoundTrip ==
  /\ plugins = tasks
  /\ ( /\ lastLoad.op = "load"
       /\ lastLoad.plugin \notin lastLoad.loaded
       /\ lastLoad.outcome # "onLoad failed" )
       => lastLoad.outcome = "ok"

=============================================================================
